---- MODULE Spec2Model ----
(***************************************************************************)
(* Campaign index (dnd_pipeline/indexing.py) of the D&D session toolchain: *)
(* the ledger file index.json, update_index, load_index and the retrieval  *)
(* of the previous session's context.                                      *)
(*                                                                         *)
(* Text is modelled as a sequence of one-character strings, so that        *)
(* str.strip, str.casefold and the pathlib conversions are computed and    *)
(* not assumed.                                                            *)
(***************************************************************************)
EXTENDS Integers, Sequences, FiniteSets, TLC

VARIABLES
    file,       \* index.json on disk
    fs,         \* the per-session <transcript>.summary.json files on disk
    clock,      \* datetime.utcnow(), in whole seconds
    calls,      \* number of update_index calls started so far
    lastCall,   \* the last update_index call that returned: its arguments, whether
                \* they repeat the call before it, and the ledger it loaded
    applied,    \* hook lists of the summaries applied so far, in call order
    ret,        \* outcome of the last call (return value or exception)
    procs,      \* the concurrently running update_index invocations
    input       \* the argument of the transcript cleanup call under study

vars == <<file, fs, clock, calls, lastCall, applied, ret, procs, input>>

-----------------------------------------------------------------------------
(* Bounds of the model *)

MaxUpdates == 3     \* update_index calls per behaviour
MaxClock == 1       \* seconds the clock may advance
FlushChunks == 2    \* write(2) calls one write_text needs for the JSON text

-----------------------------------------------------------------------------
(* Text *)

UpperChars ==
    <<"A", "B", "C", "D", "E", "F", "G", "H", "I", "J", "K", "L", "M",
      "N", "O", "P", "Q", "R", "S", "T", "U", "V", "W", "X", "Y", "Z">>

LowerChars ==
    <<"a", "b", "c", "d", "e", "f", "g", "h", "i", "j", "k", "l", "m",
      "n", "o", "p", "q", "r", "s", "t", "u", "v", "w", "x", "y", "z">>

\* the lower-case letter of each upper-case letter
FoldTable ==
    [c \in {UpperChars[i] : i \in 1..Len(UpperChars)} |->
        LowerChars[CHOOSE i \in 1..Len(UpperChars) : UpperChars[i] = c]]

\* str.casefold on one character (ASCII)
FoldChar(c) == IF c \in DOMAIN FoldTable THEN FoldTable[c] ELSE c

\* str.casefold
Casefold(s) == [i \in 1..Len(s) |-> FoldChar(s[i])]

\* the white space of str.strip() and str.split() that the texts here contain
WhitespaceChars == {" ", "\t", "\n", "\r"}

IsSpace(c) == c \in WhitespaceChars

RECURSIVE LStrip(_)
LStrip(s) == IF s # <<>> /\ IsSpace(Head(s)) THEN LStrip(Tail(s)) ELSE s

RECURSIVE RStrip(_)
RStrip(s) ==
    IF s # <<>> /\ IsSpace(s[Len(s)]) THEN RStrip(SubSeq(s, 1, Len(s) - 1)) ELSE s

\* str.strip
Strip(s) == RStrip(LStrip(s))

\* value in list (Python's `in` on a list)
In(v, list) == \E i \in 1..Len(list) : list[i] = v

\* list[:n]
Take(list, n) == SubSeq(list, 1, IF Len(list) < n THEN Len(list) ELSE n)

IsPrefix(a, b) == Len(a) <= Len(b) /\ SubSeq(b, 1, Len(a)) = a

-----------------------------------------------------------------------------
(* Paths (pathlib on a POSIX file system without symbolic links) *)

\* the parts of a path string: split on "/", empty and "." parts dropped
RECURSIVE SplitParts(_, _, _)
SplitParts(s, cur, acc) ==
    LET done == IF cur = <<>> \/ cur = <<".">> THEN acc ELSE Append(acc, cur)
    IN  IF s = <<>> THEN done
        ELSE IF Head(s) = "/" THEN SplitParts(Tail(s), <<>>, done)
        ELSE SplitParts(Tail(s), Append(cur, Head(s)), acc)

\* Path(value)
ToPath(value) ==
    [abs |-> value # <<>> /\ Head(value) = "/", parts |-> SplitParts(value, <<>>, <<>>)]

RECURSIVE JoinParts(_)
JoinParts(parts) ==
    IF parts = <<>> THEN <<>>
    ELSE IF Len(parts) = 1 THEN parts[1]
    ELSE parts[1] \o <<"/">> \o JoinParts(Tail(parts))

\* Path.as_posix()
AsPosix(path) ==
    IF path.abs THEN <<"/">> \o JoinParts(path.parts)
    ELSE IF path.parts = <<>> THEN <<".">>
    ELSE JoinParts(path.parts)

\* a / b
JoinPath(a, b) == IF b.abs THEN b ELSE [abs |-> a.abs, parts |-> a.parts \o b.parts]

\* ".." steps of an absolute path folded away
RECURSIVE NormParts(_, _)
NormParts(parts, acc) ==
    IF parts = <<>> THEN acc
    ELSE IF Head(parts) = <<".", ".">>
         THEN NormParts(Tail(parts),
                        IF acc = <<>> THEN acc ELSE SubSeq(acc, 1, Len(acc) - 1))
         ELSE NormParts(Tail(parts), Append(acc, Head(parts)))

\* the working directory of the process
Cwd == [abs |-> TRUE, parts |-> << <<"w">> >>]

\* Path.resolve()
Resolve(path) == [abs |-> TRUE, parts |-> NormParts(JoinPath(Cwd, path).parts, <<>>)]

\* the index file, <project root>/index.json
IndexPath == [abs |-> TRUE, parts |-> << <<"p">>, <<"i">> >>]

\* Path.parent
Parent(path) ==
    [abs |-> path.abs,
     parts |-> IF path.parts = <<>> THEN <<>>
               ELSE SubSeq(path.parts, 1, Len(path.parts) - 1)]

ResolveIndexPath(index_path, value) ==
    LET raw == ToPath(value)
    IN  IF raw.abs THEN raw ELSE Resolve(JoinPath(Parent(index_path), raw))

PathKey(path) == Casefold(AsPosix(Resolve(path)))

-----------------------------------------------------------------------------
(* The ledger *)

Buckets == <<"characters", "locations", "factions", "events">>

DefaultIndex ==
    [sessions |-> <<>>,
     characters |-> <<>>,
     locations |-> <<>>,
     factions |-> <<>>,
     events |-> <<>>,
     unresolved_hooks |-> <<>>,
     updated_at |-> <<>>]

\* index.json does not exist
NoFile == [exists |-> FALSE, chunks |-> [i \in 1..FlushChunks |-> <<>>]]

\* index.json truncated by open(..., "w"): no text yet
EmptyFile == [exists |-> TRUE, chunks |-> [i \in 1..FlushChunks |-> <<>>]]

\* index.json holds the whole JSON text of doc
WholeFile(doc) == [exists |-> TRUE, chunks |-> [i \in 1..FlushChunks |-> <<doc>>]]

\* json.loads accepts the text on disk. The text of an object cut short is no JSON,
\* and chunks of two different texts are taken not to join into a JSON document.
Parses(f) == f.chunks[1] # <<>> /\ \A i \in 1..FlushChunks : f.chunks[i] = f.chunks[1]

\* load_index without the test for a missing file
LoadIndexNoDefault(f) ==
    IF f.exists /\ Parses(f) THEN [raised |-> FALSE, index |-> f.chunks[1][1]]
    ELSE [raised |-> TRUE, index |-> DefaultIndex]

\* load_index that takes a text json.loads rejects for an empty ledger
LoadIndexLenient(f) ==
    IF f.exists /\ Parses(f) THEN [raised |-> FALSE, index |-> f.chunks[1][1]]
    ELSE [raised |-> FALSE, index |-> DefaultIndex]

LoadIndex(f) ==
    IF ~f.exists THEN [raised |-> FALSE, index |-> DefaultIndex]
    ELSE IF Parses(f) THEN [raised |-> FALSE, index |-> f.chunks[1][1]]
    ELSE [raised |-> TRUE, index |-> DefaultIndex]

\* position of the key in the dict (a sequence of name/sessions items), 0 if absent
KeyPos(entries, name) ==
    IF \E i \in 1..Len(entries) : entries[i].name = name
    THEN CHOOSE i \in 1..Len(entries) : entries[i].name = name
    ELSE 0

\* _add_entity without its `not in` test
AddEntityNoCheck(index, bucket, entity_name, session_title) ==
    LET entries == index[bucket]
        pos == KeyPos(entries, entity_name)
    IN  IF pos = 0
        THEN [index EXCEPT ![bucket] =
                 Append(entries, [name |-> entity_name, sessions |-> <<session_title>>])]
        ELSE [index EXCEPT ![bucket] =
                 [entries EXCEPT ![pos].sessions = Append(@, session_title)]]

AddEntity(index, bucket, entity_name, session_title) ==
    LET entries == index[bucket]
        pos == KeyPos(entries, entity_name)
    IN  IF pos = 0
        THEN [index EXCEPT ![bucket] =
                 Append(entries, [name |-> entity_name, sessions |-> <<session_title>>])]
        ELSE IF In(session_title, entries[pos].sessions) THEN index
        ELSE [index EXCEPT ![bucket] =
                 [entries EXCEPT ![pos].sessions = Append(@, session_title)]]

\* for name in names: _add_entity(...). The names are taken in order, the first half
\* of the list before the second, and the index after the first half is evaluated
\* (by the comparison) before the second half starts: a long list is then evaluated
\* to a depth of its logarithm.
RECURSIVE AddEntities(_, _, _, _)
AddEntities(index, bucket, names, session_title) ==
    IF names = <<>> THEN index
    ELSE IF Len(names) = 1 THEN AddEntity(index, bucket, names[1], session_title)
    ELSE LET half == Len(names) \div 2
             first == AddEntities(index, bucket, SubSeq(names, 1, half), session_title)
         IN  IF first = index
             THEN AddEntities(index, bucket, SubSeq(names, half + 1, Len(names)),
                              session_title)
             ELSE AddEntities(first, bucket, SubSeq(names, half + 1, Len(names)),
                              session_title)

\* the hook loop without its `not in` test
RECURSIVE AddHooksNoCheck(_, _)
AddHooksNoCheck(index, hooks) ==
    IF hooks = <<>> THEN index
    ELSE AddHooksNoCheck([index EXCEPT !.unresolved_hooks = Append(@, Head(hooks))],
                         Tail(hooks))

\* for hook in summary.unresolved_hooks, in order, the first half of the list
\* before the second
RECURSIVE AddHooks(_, _)
AddHooks(index, hooks) ==
    IF hooks = <<>> THEN index
    ELSE IF Len(hooks) = 1
    THEN IF In(hooks[1], index.unresolved_hooks) THEN index
         ELSE [index EXCEPT !.unresolved_hooks = Append(@, hooks[1])]
    ELSE LET half == Len(hooks) \div 2
             first == AddHooks(index, SubSeq(hooks, 1, half))
         IN  IF first = index THEN AddHooks(index, SubSeq(hooks, half + 1, Len(hooks)))
             ELSE AddHooks(first, SubSeq(hooks, half + 1, Len(hooks)))

SessionRecord(summary, session_markdown_path, transcript_path) ==
    [title |-> summary.session_title,
     date |-> summary.session_date,
     note_file |-> AsPosix(session_markdown_path),
     transcript_file |-> AsPosix(transcript_path)]

\* the record appended without the `not in` test
AddSessionAlways(index, session_record) ==
    [index EXCEPT !.sessions = Append(@, session_record)]

\* an earlier record of the same title replaced by the new one
AddSessionUpsert(index, session_record) ==
    LET kept == SelectSeq(index.sessions, LAMBDA r : r.title # session_record.title)
    IN  [index EXCEPT !.sessions = Append(kept, session_record)]

AddSession(index, session_record) ==
    IF In(session_record, index.sessions) THEN index
    ELSE [index EXCEPT !.sessions = Append(@, session_record)]

\* update_index between load_index and write_text
UpdatedIndex(index, summary, session_markdown_path, transcript_path, now) ==
    LET i0 == AddSession(index,
                         SessionRecord(summary, session_markdown_path, transcript_path))
        i1 == AddEntities(i0, "characters", summary.characters, summary.session_title)
        i2 == AddEntities(i1, "locations", summary.locations, summary.session_title)
        i3 == AddEntities(i2, "factions", summary.factions, summary.session_title)
        i4 == AddEntities(i3, "events", summary.events, summary.session_title)
        i5 == AddHooks(i4, summary.unresolved_hooks)
    IN  [i5 EXCEPT !.updated_at = <<now>>]

\* Path.write_text: the file is truncated on open and holds the whole text on return
WriteText(doc) == WholeFile(doc)

-----------------------------------------------------------------------------
(* Per-session summary files and get_previous_session_context *)

SummarySuffix == <<".", "s", "u", "m", "m", "a", "r", "y", ".", "j", "s", "o", "n">>

HookFallback == 8

\* index of the last "." of a file name that starts a suffix, 0 if there is none
RECURSIVE LastDot(_, _)
LastDot(name, i) ==
    IF i <= 1 THEN 0
    ELSE IF name[i] = "." THEN (IF i = Len(name) THEN 0 ELSE i)
    ELSE LastDot(name, i - 1)

\* Path.with_suffix
WithSuffix(path, suffix) ==
    LET n == Len(path.parts)
        name == path.parts[n]
        dot == LastDot(name, Len(name))
        stem == IF dot = 0 THEN name ELSE SubSeq(name, 1, dot - 1)
    IN  [path EXCEPT !.parts[n] = stem \o suffix]

\* SessionSummary.to_dict
ToDict(summary) ==
    [session_title |-> summary.session_title,
     session_date |-> summary.session_date,
     characters |-> summary.characters,
     locations |-> summary.locations,
     factions |-> summary.factions,
     events |-> summary.events,
     unresolved_hooks |-> summary.unresolved_hooks,
     last_session_narrative |-> summary.last_session_narrative,
     plain_text_summary |-> summary.plain_text_summary,
     backlink_block |-> summary.backlink_block]

\* summary_payload = {}
EmptyPayload == [k \in {} |-> <<>>]

\* dict.get(key, default)
Get(payload, key, default) == IF key \in DOMAIN payload THEN payload[key] ELSE default

\* a summary file: absent, JSON text cut short, or the JSON text of a summary
Missing == [kind |-> "missing", summary |-> <<>>]
CutShort == [kind |-> "malformed", summary |-> <<>>]
Written(summary) == [kind |-> "json", summary |-> <<summary>>]

\* the file at the path in the files on disk (names are case-sensitive)
FileAt(files, path) ==
    LET name == AsPosix(Resolve(path))
    IN  IF name \in DOMAIN files THEN files[name] ELSE Missing

\* lines 68-74: the payload of the record's summary file, {} when the file is
\* missing or json.loads raises
SummaryPayload(files, summary_path) ==
    LET f == FileAt(files, summary_path)
    IN  IF f.kind = "json" THEN ToDict(f.summary[1]) ELSE EmptyPayload

\* the context without the fallback to the ledger's hooks
BuildContextNoFallback(index, record, summary_payload) ==
    [session_title |-> Strip(Get(record, "title", <<>>)),
     session_date |-> Strip(Get(record, "date", <<>>)),
     previously_on |-> Strip(Get(summary_payload, "previously_on", <<>>)),
     last_session_narrative |->
         Strip(Get(summary_payload, "last_session_narrative", <<>>)),
     plain_text_summary |-> Strip(Get(summary_payload, "plain_text_summary", <<>>)),
     unresolved_hooks |-> Get(summary_payload, "unresolved_hooks", <<>>),
     characters |-> Get(summary_payload, "characters", <<>>),
     locations |-> Get(summary_payload, "locations", <<>>),
     factions |-> Get(summary_payload, "factions", <<>>),
     events |-> Get(summary_payload, "events", <<>>)]

\* the context with the fallback to all of the ledger's hooks
BuildContextAllHooks(index, record, summary_payload) ==
    LET context == BuildContextNoFallback(index, record, summary_payload)
    IN  IF context.unresolved_hooks = <<>>
        THEN [context EXCEPT !.unresolved_hooks = index.unresolved_hooks]
        ELSE context

\* lines 76-91
BuildContext(index, record, summary_payload) ==
    LET hooks == Get(summary_payload, "unresolved_hooks", <<>>)
    IN  [session_title |-> Strip(Get(record, "title", <<>>)),
         session_date |-> Strip(Get(record, "date", <<>>)),
         previously_on |-> Strip(Get(summary_payload, "previously_on", <<>>)),
         last_session_narrative |->
             Strip(Get(summary_payload, "last_session_narrative", <<>>)),
         plain_text_summary |-> Strip(Get(summary_payload, "plain_text_summary", <<>>)),
         unresolved_hooks |->
             IF hooks = <<>> THEN Take(index.unresolved_hooks, HookFallback) ELSE hooks,
         characters |-> Get(summary_payload, "characters", <<>>),
         locations |-> Get(summary_payload, "locations", <<>>),
         factions |-> Get(summary_payload, "factions", <<>>),
         events |-> Get(summary_payload, "events", <<>>)]

\* lines 93-99
Usable(context) ==
    \/ context.session_title # <<>>
    \/ context.previously_on # <<>>
    \/ context.last_session_narrative # <<>>
    \/ context.plain_text_summary # <<>>
    \/ context.unresolved_hooks # <<>>

\* lines 60-66: the record names the transcript being processed, or none at all
\* the recorded text compared without resolving it against the index directory
SkippedRaw(index_path, record, current_key) ==
    LET transcript_value == Strip(Get(record, "transcript_file", <<>>))
    IN  \/ transcript_value = <<>>
        \/ Casefold(transcript_value) = current_key

Skipped(index_path, record, current_key) ==
    LET transcript_value == Strip(Get(record, "transcript_file", <<>>))
    IN  \/ transcript_value = <<>>
        \/ PathKey(ResolveIndexPath(index_path, transcript_value)) = current_key

NoContext == [found |-> FALSE, src |-> 0, context |-> <<>>]

\* the scan that starts at the oldest record
RECURSIVE ScanForward(_, _, _, _, _)
ScanForward(index_path, index, files, current_key, i) ==
    IF i > Len(index.sessions) THEN NoContext
    ELSE LET record == index.sessions[i]
             transcript_path ==
                 ResolveIndexPath(index_path, Strip(Get(record, "transcript_file", <<>>)))
             context ==
                 BuildContext(index, record,
                              SummaryPayload(files, WithSuffix(transcript_path, SummarySuffix)))
         IN  IF Skipped(index_path, record, current_key)
             THEN ScanForward(index_path, index, files, current_key, i + 1)
             ELSE IF Usable(context)
             THEN [found |-> TRUE, src |-> i, context |-> <<context>>]
             ELSE ScanForward(index_path, index, files, current_key, i + 1)

\* for record in sessions, without reversed()
ScanOldestFirst(index_path, index, files, current_key, i) ==
    ScanForward(index_path, index, files, current_key, 1)

\* lines 59-102: for record in reversed(sessions), i the position of the record
RECURSIVE Scan(_, _, _, _, _)
Scan(index_path, index, files, current_key, i) ==
    IF i = 0 THEN NoContext
    ELSE LET record == index.sessions[i]
             transcript_path ==
                 ResolveIndexPath(index_path, Strip(Get(record, "transcript_file", <<>>)))
             context ==
                 BuildContext(index, record,
                              SummaryPayload(files, WithSuffix(transcript_path, SummarySuffix)))
         IN  IF Skipped(index_path, record, current_key)
             THEN Scan(index_path, index, files, current_key, i - 1)
             ELSE IF Usable(context)
             THEN [found |-> TRUE, src |-> i, context |-> <<context>>]
             ELSE Scan(index_path, index, files, current_key, i - 1)

\* get_previous_session_context(index_path, current_transcript_path)
GetPreviousSessionContext(f, files, index_path, current_transcript_path) ==
    LET got == LoadIndex(f)
    IN  IF got.raised THEN [raised |-> TRUE] @@ NoContext
        ELSE [raised |-> FALSE] @@
             Scan(index_path, got.index, files, PathKey(current_transcript_path),
                  Len(got.index.sessions))

-----------------------------------------------------------------------------
(* get_campaign_memory_context *)

RecentLimit == 5        \* historical_sessions[-5:]
EntityLimit == 30       \* known characters, locations and factions
EventLimit == 15
HookLimit == 10
EntityChars == 80       \* max_chars of characters, locations and factions
EventChars == 100
HookChars == 120
EllipsisLen == 3        \* max_chars - 3

Ellipsis == <<".", ".", ".">>

\* lines 117-118 without the cut: the entry is emitted whole
ShortenNever(clean, max_chars) == clean

\* lines 117-118
Shorten(clean, max_chars) ==
    IF Len(clean) > max_chars
    THEN RStrip(SubSeq(clean, 1, max_chars - EllipsisLen)) \o Ellipsis
    ELSE clean

\* one round of the loop of _trim_list (lines 109-121) on value, from the out and
\* seen of the round before
TrimStep(value, max_chars, state) ==
    LET clean == Strip(value)
        key == Casefold(clean)
    IN  IF clean = <<>> \/ key \in state.seen THEN state
        ELSE [out |-> Append(state.out, Shorten(clean, max_chars)),
              seen |-> state.seen \cup {key}]

\* the loop of _trim_list over values, left at the `break` of line 121. The values
\* are taken in order, the first half of the list before the second.
RECURSIVE TrimLoop(_, _, _, _)
TrimLoop(values, limit, max_chars, state) ==
    IF values = <<>> THEN state
    ELSE IF Len(values) = 1 THEN TrimStep(values[1], max_chars, state)
    ELSE LET half == Len(values) \div 2
             first == TrimLoop(SubSeq(values, 1, half), limit, max_chars, state)
         IN  IF Len(first.out) >= limit THEN first
             ELSE TrimLoop(SubSeq(values, half + 1, Len(values)), limit, max_chars, first)

\* _trim_list(values, limit, max_chars)
TrimList(values, limit, max_chars) ==
    TrimLoop(values, limit, max_chars, [out |-> <<>>, seen |-> {}]).out

\* list(index.get(bucket, {}).keys())
Keys(entries) == [i \in 1..Len(entries) |-> entries[i].name]

\* list[-n:]
LastN(list, n) ==
    SubSeq(list, IF Len(list) > n THEN Len(list) - n + 1 ELSE 1, Len(list))

\* lines 134-148 with every record taken for a historical one
HistoricalSessionsAll(index_path, sessions, current_key) ==
    [i \in 1..Len(sessions) |->
        [title |-> Strip(Get(sessions[i], "title", <<>>)),
         date |-> Strip(Get(sessions[i], "date", <<>>))]]

\* lines 134-148
RECURSIVE HistoricalSessions(_, _, _)
HistoricalSessions(index_path, sessions, current_key) ==
    IF sessions = <<>> THEN <<>>
    ELSE LET record == Head(sessions)
             rest == HistoricalSessions(index_path, Tail(sessions), current_key)
         IN  IF Skipped(index_path, record, current_key) THEN rest
             ELSE << [title |-> Strip(Get(record, "title", <<>>)),
                      date |-> Strip(Get(record, "date", <<>>))] >> \o rest

NoSnapshot ==
    [historical_session_count |-> 0, recent_sessions |-> <<>>,
     known_characters |-> <<>>, known_locations |-> <<>>, known_factions |-> <<>>,
     known_events |-> <<>>, open_hooks |-> <<>>]

\* get_campaign_memory_context(index_path, current_transcript_path)
GetCampaignMemoryContext(f, index_path, current_transcript_path) ==
    LET got == LoadIndex(f)
        index == got.index
        historical_sessions ==
            HistoricalSessions(index_path, index.sessions,
                               PathKey(current_transcript_path))
    IN  IF got.raised THEN [raised |-> TRUE, snapshot |-> NoSnapshot]
        ELSE [raised |-> FALSE,
              snapshot |->
                  [historical_session_count |-> Len(historical_sessions),
                   recent_sessions |-> LastN(historical_sessions, RecentLimit),
                   known_characters |->
                       TrimList(Keys(index.characters), EntityLimit, EntityChars),
                   known_locations |->
                       TrimList(Keys(index.locations), EntityLimit, EntityChars),
                   known_factions |->
                       TrimList(Keys(index.factions), EntityLimit, EntityChars),
                   known_events |-> TrimList(Keys(index.events), EventLimit, EventChars),
                   open_hooks |->
                       TrimList(index.unresolved_hooks, HookLimit, HookChars)]]

-----------------------------------------------------------------------------
(* Inputs *)

Titles == {<<"S", "1">>, <<"S", "2">>}

Dates == {<<"d">>}

Ana == <<"A", "n">>
Bo == <<"B", "o">>
Keep == <<"k">>
Guild == <<"g">>
Duel == <<"u">>
Hook1 == <<"h", "1">>
Hook2 == <<"h", "2">>

\* the list fields of a normalized summary: characters, locations, factions,
\* events, unresolved_hooks
Profiles ==
    { <<  <<>>,          <<>>,       <<>>,        <<>>,       <<>>  >>,
      <<  <<Ana>>,       <<Keep>>,   <<>>,        <<Duel>>,   <<Hook1>>  >>,
      <<  <<Bo, Ana>>,   <<>>,       <<Guild>>,   <<Duel>>,   <<Hook2, Hook1>>  >> }

Summary(title, date, profile, text) ==
    [session_title |-> title,
     session_date |-> date,
     characters |-> profile[1],
     locations |-> profile[2],
     factions |-> profile[3],
     events |-> profile[4],
     unresolved_hooks |-> profile[5],
     last_session_narrative |-> text,
     plain_text_summary |-> text,
     backlink_block |-> <<>>]

Summaries == {Summary(t, d, p, <<>>) : t \in Titles, d \in Dates, p \in Profiles}

\* transcript paths as the command line resolves them against the project root
Transcripts == { <<"/", "p", "/", "a", ".", "t">>, <<"/", "p", "/", "b", ".", "t">> }

\* <project root>/sessions/<date>-<slug>.md
NotePath(summary) ==
    [abs |-> TRUE,
     parts |-> << <<"p">>, <<"s">>,
                  summary.session_date \o <<"-">> \o Casefold(summary.session_title) >>]

Now(c) == {t \in c..(c + 1) : t <= MaxClock}

\* summaries for the retrieval of context: with and without a title, and bare (no
\* list entry, no text) or filled
CtxTitles == {<<>>, <<"S", "1">>}

CtxContents ==
    { <<  << <<>>, <<>>, <<>>, <<>>, <<>> >>,                      <<>>  >>,
      <<  << <<Ana>>, <<Keep>>, <<>>, <<Duel>>, <<Hook1>> >>,      <<"n">>  >> }

CtxSummaries ==
    {Summary(t, d, c[1], c[2]) : t \in CtxTitles, d \in Dates, c \in CtxContents}

\* the summaries whose JSON file gets written; retrieval reads no title from them
TitledSummaries == {s \in CtxSummaries : s.session_title # <<>>}

\* transcript paths recorded in the ledger: absolute, and relative to the project
\* root in another letter case
CtxTranscripts ==
    { <<"/", "p", "/", "a", ".", "t">>, <<"A", ".", "t">>, <<"/", "p", "/", "b", ".", "t">> }

\* transcripts whose summary file gets written
SummaryTranscripts == { <<"/", "p", "/", "a", ".", "t">>, <<"/", "p", "/", "b", ".", "t">> }

SummaryFiles == {AsPosix(WithSuffix(ToPath(t), SummarySuffix)) : t \in SummaryTranscripts}

\* the transcript being processed
CurrentTranscripts ==
    { <<"/", "p", "/", "a", ".", "t">>,
      <<"/", "p", "/", "z", "/", ".", ".", "/", "B", ".", "t">>,
      <<"/", "p", "/", "c", ".", "t">> }

-----------------------------------------------------------------------------
(* State *)

NoRet == [op |-> "none", raised |-> FALSE, found |-> FALSE, src |-> 0,
          cur |-> <<>>, context |-> <<>>]

Proc0 == [pc |-> "idle", args |-> <<>>, loaded |-> DefaultIndex,
          index |-> DefaultIndex, text |-> <<>>, pos |-> 0]

Procs == {1, 2}

\* no cleanup call is studied
NoInput == [kind |-> "none"]

Init ==
    /\ file \in {NoFile, WholeFile(DefaultIndex)}
    /\ fs = [f \in SummaryFiles |-> Missing]
    /\ clock = 0
    /\ calls = 0
    /\ lastCall = <<>>
    /\ applied = <<>>
    /\ ret = NoRet
    /\ procs = [p \in Procs |-> Proc0]
    /\ input = NoInput

CallArgs(summary, session_markdown_path, transcript_path) ==
    [summary |-> summary, note |-> session_markdown_path, transcript |-> transcript_path]

\* update_index(index_path, summary, session_markdown_path, transcript_path), run
\* alone, as one of at most max_calls calls
UpdateIndexUpTo(max_calls, summary, session_markdown_path, transcript_path, now) ==
    LET loaded == LoadIndex(file)
    IN  /\ calls < max_calls
        /\ calls' = calls + 1
        /\ clock' = now
        /\ IF loaded.raised
           THEN /\ ret' = [NoRet EXCEPT !.op = "update_index", !.raised = TRUE]
                /\ UNCHANGED <<file, lastCall, applied>>
           ELSE /\ file' = WriteText(UpdatedIndex(loaded.index, summary,
                                                  session_markdown_path,
                                                  transcript_path, now))
                /\ lastCall' = <<[args |-> CallArgs(summary, session_markdown_path,
                                                      transcript_path),
                                  repeat |-> lastCall # <<>> /\
                                             lastCall[1].args =
                                                 CallArgs(summary, session_markdown_path,
                                                          transcript_path),
                                  before |-> loaded.index]>>
                /\ applied' = applied \o summary.unresolved_hooks
                /\ ret' = [NoRet EXCEPT !.op = "update_index"]
        /\ UNCHANGED <<fs, procs, input>>

UpdateIndex(summary, session_markdown_path, transcript_path, now) ==
    UpdateIndexUpTo(MaxUpdates, summary, session_markdown_path, transcript_path, now)

Next ==
    \E s \in Summaries, t \in Transcripts, now \in Now(clock) :
        UpdateIndex(s, NotePath(s), ToPath(t), now)

Spec == Init /\ [][Next]_vars

-----------------------------------------------------------------------------
(* Summary files and the retrieval of the previous session's context *)

\* write_summary_json(summary, summary_json_path)
WriteSummaryJson(summary, summary_json_path) ==
    /\ calls < MaxUpdates
    /\ calls' = calls + 1
    /\ fs' = [fs EXCEPT ![AsPosix(Resolve(summary_json_path))] = Written(summary)]
    /\ ret' = [NoRet EXCEPT !.op = "write_summary_json"]
    /\ UNCHANGED <<file, clock, lastCall, applied, procs, input>>

\* write_summary_json killed before write_text has written the whole text
WriteSummaryJsonCut(summary_json_path) ==
    /\ calls < MaxUpdates
    /\ calls' = calls + 1
    /\ fs' = [fs EXCEPT ![AsPosix(Resolve(summary_json_path))] = CutShort]
    /\ ret' = [NoRet EXCEPT !.op = "write_summary_json", !.raised = TRUE]
    /\ UNCHANGED <<file, clock, lastCall, applied, procs, input>>

\* get_previous_session_context(index_path, current_transcript_path)
PreviousSessionContext(current_transcript_path) ==
    /\ ret' = [op |-> "get_previous_session_context",
               cur |-> AsPosix(current_transcript_path)]
              @@ GetPreviousSessionContext(file, fs, IndexPath, current_transcript_path)
    /\ UNCHANGED <<file, fs, clock, calls, lastCall, applied, procs, input>>

NextCtx ==
    \/ \E s \in CtxSummaries, t \in CtxTranscripts :
           UpdateIndex(s, NotePath(s), ToPath(t), clock)
    \/ \E s \in TitledSummaries, t \in SummaryTranscripts :
           WriteSummaryJson(s, WithSuffix(ToPath(t), SummarySuffix))
    \/ \E t \in SummaryTranscripts :
           WriteSummaryJsonCut(WithSuffix(ToPath(t), SummarySuffix))
    \/ \E t \in CurrentTranscripts : PreviousSessionContext(ToPath(t))

SpecCtx == Init /\ [][NextCtx]_vars

-----------------------------------------------------------------------------
(* update_index invocations running at the same time, step by step *)

\* lines 182-205: load_index, then the update of the loaded index in memory
Load(p, summary, session_markdown_path, transcript_path, now) ==
    LET got == LoadIndex(file)
        args == CallArgs(summary, session_markdown_path, transcript_path)
    IN  /\ procs[p].pc = "idle"
        /\ calls < MaxUpdates
        /\ calls' = calls + 1
        /\ clock' = now
        /\ procs' = [procs EXCEPT ![p] =
               IF got.raised
               THEN [@ EXCEPT !.pc = "failed", !.args = <<args>>]
               ELSE [pc |-> "loaded", args |-> <<args>>, loaded |-> got.index,
                     index |-> UpdatedIndex(got.index, summary, session_markdown_path,
                                            transcript_path, now),
                     text |-> <<>>, pos |-> 0]]
        /\ UNCHANGED <<file, fs, lastCall, applied, ret, input>>

\* the index as read again from the file at the time of writing
TextToWriteFresh(p) ==
    LET a == procs[p].args[1]
    IN  UpdatedIndex(LoadIndex(file).index, a.summary, a.note, a.transcript,
                     procs[p].index.updated_at[1])

\* line 206: json.dumps(index), the index this invocation loaded and updated
TextToWrite(p) == procs[p].index

\* line 206: write_text opens the file for writing, which truncates it
Open(p) ==
    /\ procs[p].pc = "loaded"
    /\ procs' = [procs EXCEPT ![p].pc = "writing", ![p].text = <<TextToWrite(p)>>,
                              ![p].pos = 0]
    /\ file' = EmptyFile
    /\ UNCHANGED <<fs, clock, calls, lastCall, applied, ret, input>>

\* line 206: the text reaches the file at this invocation's own offset; after the
\* last chunk the file is closed and update_index returns
WriteChunk(p) ==
    /\ procs[p].pc = "writing"
    /\ file' = [exists |-> TRUE,
                chunks |-> [file.chunks EXCEPT ![procs[p].pos + 1] = procs[p].text]]
    /\ procs' = [procs EXCEPT ![p].pos = @ + 1,
                              ![p].pc = IF procs[p].pos + 1 = FlushChunks
                                        THEN "done" ELSE "writing"]
    /\ UNCHANGED <<fs, clock, calls, lastCall, applied, ret, input>>

\* the invocation is killed between the open and the end of the write
Interrupt(p) ==
    /\ procs[p].pc = "writing"
    /\ procs' = [procs EXCEPT ![p].pc = "killed"]
    /\ UNCHANGED <<file, fs, clock, calls, lastCall, applied, ret, input>>

\* load_index called by another process
ReadIndex ==
    /\ ret' = [NoRet EXCEPT !.op = "load_index", !.raised = LoadIndex(file).raised]
    /\ ret' # ret
    /\ UNCHANGED <<file, fs, clock, calls, lastCall, applied, procs, input>>

NextRace ==
    \/ \E p \in Procs, s \in Summaries, t \in Transcripts, now \in Now(clock) :
           Load(p, s, NotePath(s), ToPath(t), now)
    \/ \E p \in Procs : Open(p)
    \/ \E p \in Procs : WriteChunk(p)
    \/ \E p \in Procs : Interrupt(p)
    \/ ReadIndex

SpecRace == Init /\ [][NextRace]_vars

-----------------------------------------------------------------------------
(* A campaign of many sessions and its memory snapshot *)

MaxSessions == 6    \* update_index calls per campaign
CastSize == 50      \* characters of the crowded session
EventCount == 16    \* events of the crowded session
HookCount == 11     \* open hooks of the crowded session
Over == 5           \* characters by which a long name exceeds the cut

DigitChars == <<"0", "1", "2", "3", "4", "5", "6", "7", "8", "9">>

\* the i-th name of a numbered list, such as n07
Numbered(letter, i) == <<letter, DigitChars[(i \div 10) + 1], DigitChars[(i % 10) + 1]>>

NumberedList(letter, n) == [i \in 1..n |-> Numbered(letter, i)]

Repeat(c, n) == [i \in 1..n |-> c]

\* two long names that differ only in their last character
LongY == Repeat("x", EntityChars + Over - 1) \o <<"y">>
LongZ == Repeat("x", EntityChars + Over - 1) \o <<"z">>

\* a long name with a space where the cut falls
LongSpaced ==
    Repeat("v", EntityChars - EllipsisLen - 1) \o <<" ">> \o Repeat("w", Over + EllipsisLen)

\* the session with more entries than the snapshot keeps
Crowded ==
    Summary(<<"S", "1">>, <<"d">>,
            << NumberedList("n", CastSize), <<Keep>>, <<>>,
               NumberedList("e", EventCount), NumberedList("h", HookCount) >>,
            <<>>)

\* the session with names in two letter cases and names longer than the snapshot keeps
Wordy ==
    Summary(<<"S", "2">>, <<"d">>,
            << << <<"A", "b">>, <<"a", "B">>, LongY, LongZ, LongSpaced >>,
               << Repeat("l", EntityChars), Repeat("l", EntityChars + 1) >>,
               << Guild >>,
               << Repeat("e", EntityChars + Over), Repeat("e", EventChars + Over) >>,
               << Repeat("h", HookChars + Over), Hook1 >> >>,
            <<>>)

\* the sessions of a long campaign: a title and a date, no entity and no hook
SessionSummaries ==
    {Summary(t, d, << <<>>, <<>>, <<>>, <<>>, <<>> >>, <<>>) : t \in Titles, d \in Dates}

MemTranscripts ==
    { <<"/", "p", "/", "a", ".", "t">>, <<"A", ".", "t">>, <<"/", "p", "/", "b", ".", "t">> }

MemCurrent == { <<"/", "p", "/", "a", ".", "t">>, <<"/", "p", "/", "c", ".", "t">> }

\* get_campaign_memory_context that first saves the ledger it loaded
CampaignMemoryContextSaving(current_transcript_path) ==
    /\ ret' = [op |-> "get_campaign_memory_context",
               cur |-> AsPosix(current_transcript_path)]
              @@ GetCampaignMemoryContext(file, IndexPath, current_transcript_path)
    /\ file' = IF LoadIndex(file).raised THEN file ELSE WriteText(LoadIndex(file).index)
    /\ UNCHANGED <<fs, clock, calls, lastCall, applied, procs, input>>

\* get_campaign_memory_context(index_path, current_transcript_path)
CampaignMemoryContext(current_transcript_path) ==
    /\ ret' = [op |-> "get_campaign_memory_context",
               cur |-> AsPosix(current_transcript_path)]
              @@ GetCampaignMemoryContext(file, IndexPath, current_transcript_path)
    /\ UNCHANGED <<file, fs, clock, calls, lastCall, applied, procs, input>>

NextMem ==
    \/ \E s \in SessionSummaries, t \in MemTranscripts :
           UpdateIndexUpTo(MaxSessions, s, NotePath(s), ToPath(t), clock)
    \/ \E t \in MemCurrent : CampaignMemoryContext(ToPath(t))

SpecMem == Init /\ [][NextMem]_vars

\* sessions with more and longer entries than the snapshot keeps
TrimSummaries == {Crowded, Wordy}

NextTrim ==
    \/ \E s \in TrimSummaries, t \in Transcripts :
           UpdateIndex(s, NotePath(s), ToPath(t), clock)
    \/ \E t \in MemCurrent : CampaignMemoryContext(ToPath(t))

SpecTrim == Init /\ [][NextTrim]_vars

-----------------------------------------------------------------------------
(* Readers of a ledger that a killed update_index may have left cut short *)

\* the file after write_text has opened it and written n of its chunks
CutFile(doc, n) ==
    [exists |-> TRUE, chunks |-> [i \in 1..FlushChunks |-> IF i <= n THEN <<doc>> ELSE <<>>]]

\* update_index killed in write_text (line 206) after n chunks of the text
UpdateIndexKilled(summary, session_markdown_path, transcript_path, now, n) ==
    LET loaded == LoadIndex(file)
    IN  /\ calls < MaxUpdates
        /\ ~loaded.raised
        /\ calls' = calls + 1
        /\ clock' = now
        /\ file' = CutFile(UpdatedIndex(loaded.index, summary, session_markdown_path,
                                        transcript_path, now), n)
        /\ ret' = [NoRet EXCEPT !.op = "killed"]
        /\ UNCHANGED <<fs, lastCall, applied, procs, input>>

NextRead ==
    \/ \E s \in TitledSummaries, t \in SummaryTranscripts :
           UpdateIndex(s, NotePath(s), ToPath(t), clock)
    \/ \E s \in TitledSummaries, t \in SummaryTranscripts, n \in 0..(FlushChunks - 1) :
           UpdateIndexKilled(s, NotePath(s), ToPath(t), clock, n)
    \/ \E s \in TitledSummaries, t \in SummaryTranscripts :
           WriteSummaryJson(s, WithSuffix(ToPath(t), SummarySuffix))
    \/ \E t \in MemCurrent : PreviousSessionContext(ToPath(t))
    \/ \E t \in MemCurrent : CampaignMemoryContext(ToPath(t))
    \/ ReadIndex

SpecRead == Init /\ [][NextRead]_vars

-----------------------------------------------------------------------------
(* Properties of the ledger under update_index *)

\* what load_index returns for the file on disk
Ledger == LoadIndex(file).index

\* the ledger without its timestamp
Content(index) == [index EXCEPT !.updated_at = <<>>]

NoRepeats(list) == \A i, j \in 1..Len(list) : list[i] = list[j] => i = j

\* C1: a second update_index call with the same summary, note path and transcript
\* path leaves sessions, the four entity maps and unresolved_hooks as the first call
\* left them; only updated_at may differ.
C1_UpdateIdempotent ==
    (lastCall # <<>> /\ lastCall[1].repeat)
        => Content(Ledger) = Content(lastCall[1].before)

C1_Witness ==
    /\ lastCall # <<>> /\ lastCall[1].repeat
    /\ lastCall[1].args.summary.characters # <<>>
    /\ lastCall[1].args.summary.unresolved_hooks # <<>>
    /\ Ledger.updated_at # lastCall[1].before.updated_at

\* C2: the sessions list never holds the same (title, date, note_file,
\* transcript_file) record twice, and no entity's occurrence list holds the same
\* session title twice.
C2_NoDuplicates ==
    /\ NoRepeats(Ledger.sessions)
    /\ \A b \in 1..Len(Buckets) :
           \A i \in 1..Len(Ledger[Buckets[b]]) :
               NoRepeats(Ledger[Buckets[b]][i].sessions)

C2_Witness ==
    /\ calls = 3
    /\ Len(Ledger.sessions) = 2
    /\ \E i \in 1..Len(Ledger.characters) : Len(Ledger.characters[i].sessions) = 2

\* C4: update_index keeps the sessions list it loaded as a prefix of the list it
\* writes, and for every entity name already present keeps its session-title list
\* as a prefix of the name's list afterwards.
C4_AppendOnly ==
    lastCall # <<>> =>
        LET old == lastCall[1].before
        IN  /\ IsPrefix(old.sessions, Ledger.sessions)
            /\ \A b \in 1..Len(Buckets) :
                   \A i \in 1..Len(old[Buckets[b]]) :
                       LET pos == KeyPos(Ledger[Buckets[b]], old[Buckets[b]][i].name)
                       IN  /\ pos # 0
                           /\ IsPrefix(old[Buckets[b]][i].sessions,
                                       Ledger[Buckets[b]][pos].sessions)

C4_Witness ==
    /\ lastCall # <<>>
    /\ lastCall[1].before.sessions # <<>>
    /\ Len(Ledger.sessions) > Len(lastCall[1].before.sessions)
    /\ \E i \in 1..Len(lastCall[1].before.characters) :
           Len(Ledger.characters[i].sessions)
               > Len(lastCall[1].before.characters[i].sessions)

\* the distinct values of a list in the order of their first occurrence
RECURSIVE FirstSeen(_, _)
FirstSeen(list, acc) ==
    IF list = <<>> THEN acc
    ELSE FirstSeen(Tail(list), IF In(Head(list), acc) THEN acc ELSE Append(acc, Head(list)))

\* C5: unresolved_hooks holds every hook of every summary applied so far, each once,
\* in first-seen order, and no call removes a hook.
C5_HooksAccumulate ==
    /\ Ledger.unresolved_hooks = FirstSeen(applied, <<>>)
    /\ lastCall # <<>> =>
           IsPrefix(lastCall[1].before.unresolved_hooks, Ledger.unresolved_hooks)

C5_Witness ==
    /\ Len(applied) > Len(Ledger.unresolved_hooks)
    /\ Ledger.unresolved_hooks = <<Hook2, Hook1>>
    /\ lastCall[1].before.unresolved_hooks # <<>>

-----------------------------------------------------------------------------
(* Concurrent update_index invocations *)

RecordOf(p) ==
    SessionRecord(procs[p].args[1].summary, procs[p].args[1].note,
                  procs[p].args[1].transcript)

\* both invocations loaded the same ledger, for different sessions, and returned
RacedAndDone ==
    /\ \A p \in Procs : procs[p].pc = "done"
    /\ procs[1].loaded = procs[2].loaded
    /\ RecordOf(1) # RecordOf(2)

\* C3: when two update_index invocations for different sessions both load the
\* ledger before either writes and both return without error, the ledger on disk
\* is the one a single invocation wrote: it holds that invocation's session record
\* and entities and not the other's record, whose update is lost.
C3_LostUpdate ==
    (RacedAndDone /\ Parses(file)) =>
        \E w \in Procs :
            /\ Ledger = procs[w].index
            /\ \A l \in Procs \ {w} :
                   /\ ~In(RecordOf(l), Ledger.sessions)
                   /\ Ledger.sessions = Append(procs[l].loaded.sessions, RecordOf(w))

C3_Witness ==
    /\ RacedAndDone /\ Parses(file)
    /\ Ledger = procs[2].index
    /\ Ledger.sessions = <<RecordOf(2)>>
    /\ procs[1].args[1].summary.characters # <<>>
    /\ Ledger.characters = [i \in 1..Len(procs[2].args[1].summary.characters) |->
                               [name |-> procs[2].args[1].summary.characters[i],
                                sessions |-> <<procs[2].args[1].summary.session_title>>]]
    /\ \E i \in 1..Len(procs[1].args[1].summary.characters) :
           KeyPos(Ledger.characters, procs[1].args[1].summary.characters[i]) = 0

\* C6: at every point during and after an update_index call, load_index sees the
\* whole ledger as it was before the call or the whole ledger the call writes,
\* never an empty or partly written file.
C6_AtomicRewrite ==
    /\ ~LoadIndex(file).raised
    /\ ret.op = "load_index" => ~ret.raised
    /\ (\E p \in Procs : procs[p].pc \in {"writing", "killed", "done"})
           => Ledger \in {procs[p].loaded : p \in Procs} \cup {procs[p].index : p \in Procs}

-----------------------------------------------------------------------------
(* Retrieval of the previous session's context *)

Retrieved == ret.op = "get_previous_session_context"

\* the record's transcript resolves to the given transcript path: a relative entry
\* is taken against the directory of the index, and the resolved paths are compared
\* without regard to letter case
SameTranscript(record, current) ==
    PathKey(ResolveIndexPath(IndexPath, record.transcript_file)) = PathKey(ToPath(current))

\* the summary file next to the record's transcript
SummaryFileOf(record) ==
    FileAt(fs, WithSuffix(ResolveIndexPath(IndexPath, record.transcript_file),
                          SummarySuffix))

ContextOf(i) ==
    LET record == Ledger.sessions[i]
        file_i == SummaryFileOf(record)
        payload == IF file_i.kind = "json" THEN ToDict(file_i.summary[1]) ELSE EmptyPayload
    IN  BuildContext(Ledger, record, payload)

AnyField(c) ==
    \/ c.session_title # <<>> \/ c.session_date # <<>>
    \/ c.previously_on # <<>> \/ c.last_session_narrative # <<>>
    \/ c.plain_text_summary # <<>> \/ c.unresolved_hooks # <<>>
    \/ c.characters # <<>> \/ c.locations # <<>> \/ c.factions # <<>> \/ c.events # <<>>

CountedField(c) ==
    \/ c.session_title # <<>>
    \/ c.previously_on # <<>> \/ c.last_session_narrative # <<>>
    \/ c.plain_text_summary # <<>> \/ c.unresolved_hooks # <<>>

Latest(positions) == CHOOSE i \in positions : \A j \in positions : j <= i

\* C8 as stated: the context returned is that of the most recent record that does
\* not match the current transcript and has any non-empty field (title, date,
\* narrative text, plain summary, hooks, entity lists); None only if there is none.
C8_MostRecentAnyField ==
    Retrieved =>
        LET eligible == {i \in 1..Len(Ledger.sessions) :
                            /\ ~SameTranscript(Ledger.sessions[i], ret.cur)
                            /\ AnyField(ContextOf(i))}
        IN  IF eligible = {} THEN ~ret.found
            ELSE ret.found /\ ret.src = Latest(eligible)
                           /\ ret.context = <<ContextOf(Latest(eligible))>>

\* C8 as amended: the context returned is that of the most recent record that has
\* a transcript path, does not match the current transcript, and has a non-empty
\* title, previously_on, narrative, plain summary or hook list (its own hooks or,
\* without them, the ledger's first 8); the date and the entity lists do not count.
\* None only if there is no such record.
C8_MostRecentUsable ==
    Retrieved =>
        LET eligible == {i \in 1..Len(Ledger.sessions) :
                            /\ Ledger.sessions[i].transcript_file # <<>>
                            /\ ~SameTranscript(Ledger.sessions[i], ret.cur)
                            /\ CountedField(ContextOf(i))}
        IN  IF eligible = {} THEN ~ret.found
            ELSE ret.found /\ ret.src = Latest(eligible)
                           /\ ret.context = <<ContextOf(Latest(eligible))>>

C8_Witness ==
    /\ Retrieved /\ ret.found /\ ret.src = 1
    /\ Len(Ledger.sessions) = 3
    /\ ~SameTranscript(Ledger.sessions[2], ret.cur)
    /\ ~CountedField(ContextOf(2))
    /\ ContextOf(2).session_date # <<>>
    /\ SameTranscript(Ledger.sessions[3], ret.cur)

\* C9: with no ledger file, or a ledger without sessions, the retrieval returns
\* None and raises nothing.
C9_NoPriorSession ==
    (Retrieved /\ (~file.exists \/ Ledger.sessions = <<>>))
        => ~ret.raised /\ ~ret.found /\ ret.context = <<>>

C9_Witness ==
    /\ Retrieved /\ ~file.exists /\ ~ret.found
    /\ \E f \in DOMAIN fs : fs[f].kind = "json"

\* C10: when the summary file of the record the context is built from is missing
\* or no JSON, the retrieval does not raise and the context holds the record's
\* title and date, the ledger's hooks, and nothing else.
C10_SummaryFileTolerated ==
    (Retrieved /\ ret.found /\ SummaryFileOf(Ledger.sessions[ret.src]).kind # "json")
        => /\ ~ret.raised
           /\ ret.context[1] =
                  [session_title |-> Ledger.sessions[ret.src].title,
                   session_date |-> Ledger.sessions[ret.src].date,
                   previously_on |-> <<>>,
                   last_session_narrative |-> <<>>,
                   plain_text_summary |-> <<>>,
                   unresolved_hooks |-> Take(Ledger.unresolved_hooks, HookFallback),
                   characters |-> <<>>,
                   locations |-> <<>>,
                   factions |-> <<>>,
                   events |-> <<>>]

C10_Witness ==
    /\ Retrieved /\ ret.found
    /\ SummaryFileOf(Ledger.sessions[ret.src]).kind = "malformed"
    /\ ret.context[1].unresolved_hooks # <<>>
    /\ ret.context[1].session_title = <<>>

-----------------------------------------------------------------------------
(* A ledger file that holds no JSON document *)

\* index.json exists and json.loads rejects its text
Malformed(f) == f.exists /\ ~(f.chunks[1] # <<>> /\ \A i \in 1..FlushChunks : f.chunks[i] = f.chunks[1])

LedgerCalls ==
    {"load_index", "update_index", "get_previous_session_context",
     "get_campaign_memory_context"}

\* C11: when index.json exists and holds malformed JSON, each call of load_index,
\* update_index, get_previous_session_context and get_campaign_memory_context
\* raises, and the file is left as it was (update_index writes nothing).
C11_MalformedLedgerRaises ==
    [][ (Malformed(file) /\ ret'.op \in LedgerCalls) => (ret'.raised /\ file' = file) ]_vars

C11_Witness ==
    /\ Malformed(file)
    /\ file.chunks[1] # <<>>
    /\ ret.op = "update_index" /\ ret.raised
    /\ calls = MaxUpdates

-----------------------------------------------------------------------------
(* The campaign memory snapshot *)

Remembered == ret.op = "get_campaign_memory_context" /\ ~ret.raised

\* the ledger's records of other transcripts than the current one, in ledger order
OtherSessions == SelectSeq(Ledger.sessions, LAMBDA r : ~SameTranscript(r, ret.cur))

\* the snapshot counts the given records and lists the last five of them
ReportsSessions(snapshot, others) ==
    LET count == Len(others)
        kept == IF count < 5 THEN count ELSE 5
    IN  /\ snapshot.historical_session_count = count
        /\ snapshot.recent_sessions =
               [i \in 1..kept |-> [title |-> others[count - kept + i].title,
                                   date |-> others[count - kept + i].date]]

\* C12: historical_session_count is the number of ledger records whose transcript
\* does not match the current transcript, and recent_sessions are the last
\* min(5, count) of them in ledger order, each as its title and date only.
C12_HistoricalSessions == Remembered => ReportsSessions(ret.snapshot, OtherSessions)

C12_Witness ==
    /\ Remembered
    /\ ret.snapshot.historical_session_count = 6
    /\ Len(ret.snapshot.recent_sessions) = 5
    /\ ret.snapshot.recent_sessions[1] =
           [title |-> Ledger.sessions[2].title, date |-> Ledger.sessions[2].date]
    /\ Ledger.sessions[1].title # Ledger.sessions[2].title

\* the lists of the snapshot: the names they are drawn from, and the limit and the
\* number of characters the specification gives for them
SnapshotLists ==
    << [list |-> ret.snapshot.known_characters, names |-> Keys(Ledger.characters),
        limit |-> 30, chars |-> 80],
       [list |-> ret.snapshot.known_locations, names |-> Keys(Ledger.locations),
        limit |-> 30, chars |-> 80],
       [list |-> ret.snapshot.known_factions, names |-> Keys(Ledger.factions),
        limit |-> 30, chars |-> 80],
       [list |-> ret.snapshot.known_events, names |-> Keys(Ledger.events),
        limit |-> 15, chars |-> 80],
       [list |-> ret.snapshot.open_hooks, names |-> Ledger.unresolved_hooks,
        limit |-> 10, chars |-> 120] >>

\* positions of the names that are the first of their spelling, letter case aside
FirstOfKind(names) ==
    {p \in 1..Len(names) :
        \A q \in 1..(p - 1) : Casefold(names[q]) # Casefold(names[p])}

\* the first `limit` of these positions, in order
KeptPositions(names, limit) ==
    LET firsts == FirstOfKind(names)
    IN  SelectSeq([p \in 1..Len(names) |-> p],
                  LAMBDA p : p \in firsts /\ Cardinality({q \in firsts : q < p}) < limit)

\* the entry is the name, or the beginning of the name with an ellipsis marker
ComesFrom(entry, name) ==
    \/ entry = name
    \/ /\ Len(entry) >= 3 /\ Len(entry) <= Len(name)
       /\ SubSeq(entry, Len(entry) - 2, Len(entry)) = <<".", ".", ".">>
       /\ IsPrefix(SubSeq(entry, 1, Len(entry) - 3), name)

NoFoldedRepeats(list) ==
    \A i, j \in 1..Len(list) : Casefold(list[i]) = Casefold(list[j]) => i = j

AtMostLimit(l) == Len(l.list) <= l.limit

InFirstSeenOrder(l) ==
    LET kept == KeptPositions(l.names, l.limit)
    IN  /\ Len(l.list) = Len(kept)
        /\ \A i \in 1..Len(kept) : ComesFrom(l.list[i], l.names[kept[i]])

\* 50 distinct names give the first 30 of them
FirstThirtyOfFifty ==
    LET names == Keys(Ledger.characters)
    IN  (Len(names) >= 50 /\ NoFoldedRepeats(names) /\ \A i \in 1..30 : Len(names[i]) <= 80)
            => ret.snapshot.known_characters = SubSeq(names, 1, 30)

\* C13: every list of the snapshot has at most its limit of entries (30 characters,
\* locations, factions; 15 events; 10 hooks), keeps first-seen order, and holds no
\* two entries that are equal case-insensitively; 50 distinct character names give
\* exactly the first 30.
C13_TrimmedLists ==
    Remembered =>
        /\ \A k \in 1..Len(SnapshotLists) :
               /\ AtMostLimit(SnapshotLists[k])
               /\ InFirstSeenOrder(SnapshotLists[k])
               /\ NoFoldedRepeats(SnapshotLists[k].list)
        /\ FirstThirtyOfFifty

\* the parts of C13 that the code keeps: the limits, the order, the first 30 of 50
C13_LimitsAndOrder ==
    Remembered =>
        /\ \A k \in 1..Len(SnapshotLists) :
               AtMostLimit(SnapshotLists[k]) /\ InFirstSeenOrder(SnapshotLists[k])
        /\ FirstThirtyOfFifty

Range(list) == {list[i] : i \in 1..Len(list)}

\* the name as the snapshot shows it when names longer than `chars` are cut to
\* exactly chars - 3 characters and an ellipsis marker
CutExactly(name, chars) ==
    IF Len(name) > chars THEN SubSeq(name, 1, chars - 3) \o <<".", ".", ".">> ELSE name

\* the same, with the white space before the cut removed
CutAndStripped(name, chars) ==
    IF Len(name) > chars
    THEN RStrip(SubSeq(name, 1, chars - 3)) \o <<".", ".", ".">>
    ELSE name

\* the list shows its kept names cut exactly
ShowsNamesCut(l, chars) ==
    LET kept == KeptPositions(l.names, l.limit)
    IN  l.list = [i \in 1..Len(kept) |-> CutExactly(l.names[kept[i]], chars)]

\* the list shows its kept names cut and stripped
ShowsNamesStripped(l, chars) ==
    LET kept == KeptPositions(l.names, l.limit)
    IN  l.list = [i \in 1..Len(kept) |-> CutAndStripped(l.names[kept[i]], chars)]

\* the open hooks: a hook longer than 120 characters is shown in at most 120
\* characters, a shorter one unchanged
ShowsHooks(l) ==
    LET kept == KeptPositions(l.names, l.limit)
    IN  /\ Len(l.list) = Len(kept)
        /\ \A i \in 1..Len(kept) :
               IF Len(l.names[kept[i]]) > 120
               THEN Len(l.list[i]) <= 120 /\ ComesFrom(l.list[i], l.names[kept[i]])
               ELSE l.list[i] = l.names[kept[i]]

\* C14 as stated: a name of any of the four entity buckets longer than 80 characters
\* is shown as its first 77 characters and an ellipsis marker, an open hook longer
\* than 120 characters in at most 120 characters, and shorter entries unchanged.
C14_CutAtEighty ==
    Remembered =>
        /\ \A k \in 1..4 : ShowsNamesCut(SnapshotLists[k], 80)
        /\ ShowsHooks(SnapshotLists[5])

\* C14: a character, location or faction name longer than 80 characters is shown as
\* its first 77 characters without trailing white space and an ellipsis marker; an
\* event name is cut in this way only when longer than 100 characters, to its first
\* 97; an open hook longer than 120 characters to its first 117, so to at most 120
\* characters; shorter entries are shown unchanged.
C14_CutPerBucket ==
    Remembered =>
        /\ \A k \in 1..3 : ShowsNamesStripped(SnapshotLists[k], 80)
        /\ ShowsNamesStripped(SnapshotLists[4], 100)
        /\ ShowsNamesStripped(SnapshotLists[5], 120)
        /\ ShowsHooks(SnapshotLists[5])

C14_Witness ==
    /\ Remembered
    /\ \E i \in 1..Len(ret.snapshot.known_characters) :
           /\ Len(ret.snapshot.known_characters[i]) = 80
           /\ ret.snapshot.known_characters[i] \notin Range(Keys(Ledger.characters))
    /\ \E i \in 1..Len(ret.snapshot.known_characters) :
           /\ Len(ret.snapshot.known_characters[i]) = 79
           /\ ret.snapshot.known_characters[i] \notin Range(Keys(Ledger.characters))
    /\ \E i \in 1..Len(ret.snapshot.known_locations) :
           Len(ret.snapshot.known_locations[i]) = 80
           /\ ret.snapshot.known_locations[i] \in Range(Keys(Ledger.locations))
    /\ \E i \in 1..Len(ret.snapshot.known_events) :
           /\ Len(ret.snapshot.known_events[i]) > 80
           /\ ret.snapshot.known_events[i] \in Range(Keys(Ledger.events))
    /\ \E i \in 1..Len(ret.snapshot.known_events) :
           /\ Len(ret.snapshot.known_events[i]) = 100
           /\ ret.snapshot.known_events[i] \notin Range(Keys(Ledger.events))
    /\ \E i \in 1..Len(ret.snapshot.open_hooks) :
           /\ Len(ret.snapshot.open_hooks[i]) = 120
           /\ ret.snapshot.open_hooks[i] \notin Range(Ledger.unresolved_hooks)

-----------------------------------------------------------------------------
(* The retrieval calls leave the files alone *)

RetrievalCalls == {"get_previous_session_context", "get_campaign_memory_context"}

\* C15: a call of get_previous_session_context or get_campaign_memory_context leaves
\* the ledger file and every per-session summary file as they were.
C15_RetrievalReadOnly ==
    [][ ret'.op \in RetrievalCalls => (file' = file /\ fs' = fs) ]_vars

C15_Witness ==
    /\ ret.op = "get_campaign_memory_context"
    /\ ~ret.raised
    /\ ret.snapshot.historical_session_count > 0
    /\ \E f \in DOMAIN fs : fs[f].kind = "json"

-----------------------------------------------------------------------------
(* Transcript cleanup (dnd_pipeline/cleanup.py) *)

MaxNgram == 4       \* max_ngram of _collapse_repeated_ngrams

\* [A-Za-z0-9]
AlnumChars ==
    {"a", "b", "c", "d", "e", "f", "g", "h", "i", "j", "k", "l", "m",
     "n", "o", "p", "q", "r", "s", "t", "u", "v", "w", "x", "y", "z",
     "A", "B", "C", "D", "E", "F", "G", "H", "I", "J", "K", "L", "M",
     "N", "O", "P", "Q", "R", "S", "T", "U", "V", "W", "X", "Y", "Z",
     "0", "1", "2", "3", "4", "5", "6", "7", "8", "9"}

\* ['&-]
ConnectorChars == {"'", "&", "-"}

\* [A-Za-z0-9]+ from position i, where an alphanumeric stands: the last position of
\* the longest run
AlnumRunEnd(s, i) ==
    CHOOSE j \in i..Len(s) :
        /\ \A k \in i..j : s[k] \in AlnumChars
        /\ j = Len(s) \/ s[j + 1] \notin AlnumChars

\* the match ends with its first run of alphanumerics
MatchEndNoConnector(s, j) == j

\* (?:['&-][A-Za-z0-9]+)* after position j: the last position of the match
RECURSIVE MatchEnd(_, _)
MatchEnd(s, j) ==
    IF j + 2 <= Len(s) /\ s[j + 1] \in ConnectorChars /\ s[j + 2] \in AlnumChars
    THEN MatchEnd(s, AlnumRunEnd(s, j + 2))
    ELSE j

\* the matches of WORD_RE from position i on: a match starts at the next
\* alphanumeric, and the search goes on after its end
RECURSIVE FindAllFrom(_, _)
FindAllFrom(s, i) ==
    LET starts == {k \in i..Len(s) : s[k] \in AlnumChars}
    IN  IF starts = {} THEN <<>>
        ELSE LET begin == CHOOSE k \in starts : \A m \in starts : k <= m
                 end == MatchEnd(s, AlnumRunEnd(s, begin))
             IN  <<SubSeq(s, begin, end)>> \o FindAllFrom(s, end + 1)

\* WORD_RE.findall(s)
FindWords(s) == FindAllFrom(s, 1)

\* _lower_tokens
LowerTokens(tokens) == [i \in 1..Len(tokens) |-> Casefold(tokens[i])]

\* the loop keeping the last of the equal tokens
RECURSIVE CollapseWordsLoopLast(_, _, _)
CollapseWordsLoopLast(tokens, i, output) ==
    IF i > Len(tokens) THEN output
    ELSE IF Casefold(tokens[i]) = Casefold(output[Len(output)])
    THEN CollapseWordsLoopLast(tokens, i + 1, [output EXCEPT ![Len(output)] = tokens[i]])
    ELSE CollapseWordsLoopLast(tokens, i + 1, Append(output, tokens[i]))

\* the loop comparing the tokens as they are written
RECURSIVE CollapseWordsLoopExact(_, _, _)
CollapseWordsLoopExact(tokens, i, output) ==
    IF i > Len(tokens) THEN output
    ELSE IF tokens[i] = output[Len(output)]
    THEN CollapseWordsLoopExact(tokens, i + 1, output)
    ELSE CollapseWordsLoopExact(tokens, i + 1, Append(output, tokens[i]))

\* the loop of _collapse_repeated_words (lines 41-44) from the token at position i
RECURSIVE CollapseWordsLoop(_, _, _)
CollapseWordsLoop(tokens, i, output) ==
    IF i > Len(tokens) THEN output
    ELSE IF Casefold(tokens[i]) = Casefold(output[Len(output)])
    THEN CollapseWordsLoop(tokens, i + 1, output)
    ELSE CollapseWordsLoop(tokens, i + 1, Append(output, tokens[i]))

\* _collapse_repeated_words(tokens)
CollapseRepeatedWords(tokens) ==
    IF tokens = <<>> THEN tokens ELSE CollapseWordsLoop(tokens, 2, <<tokens[1]>>)

\* words[i : i + n], i counted from 0 as in the code
Slice(words, i, n) == SubSeq(words, i + 1, i + n)

\* lines 71-72: the position after the further repetitions of `first`
RECURSIVE SkipRepeats(_, _, _, _)
SkipRepeats(words, n, i, first) ==
    IF i + n <= Len(words) /\ LowerTokens(Slice(words, i, n)) = first
    THEN SkipRepeats(words, n, i + n, first)
    ELSE i

\* a scan that reports a change and leaves the words as they are
NgramScanUnchanged(words, n, i, out, local_change) ==
    [out |-> words, local_change |-> TRUE]

\* lines 64-76: the scan of words for repeated phrases of n tokens, from position i
RECURSIVE NgramScan(_, _, _, _, _)
NgramScan(words, n, i, out, local_change) ==
    IF i >= Len(words) THEN [out |-> out, local_change |-> local_change]
    ELSE IF /\ i + 2 * n <= Len(words)
            /\ LowerTokens(Slice(words, i, n)) = LowerTokens(Slice(words, i + n, n))
    THEN NgramScan(words, n,
                   SkipRepeats(words, n, i + n, LowerTokens(Slice(words, i, n))),
                   out \o Slice(words, i, n), TRUE)
    ELSE NgramScan(words, n, i + 1, Append(out, words[i + 1]), local_change)

\* lines 57-80: one round of `for n in range(max_ngram, 1, -1)`, from n downwards
RECURSIVE NgramPass(_, _, _)
NgramPass(words, n, changed) ==
    IF n < 2 THEN [words |-> words, changed |-> changed]
    ELSE IF Len(words) < 2 * n THEN NgramPass(words, n - 1, changed)
    ELSE LET scan == NgramScan(words, n, 0, <<>>, FALSE)
         IN  IF scan.local_change THEN NgramPass(scan.out, n - 1, TRUE)
             ELSE NgramPass(words, n - 1, changed)

\* the rounds of `while changed` stopped after the first one
NgramLoopOnce(words, max_ngram) == NgramPass(words, max_ngram, FALSE).words

\* lines 55-80: while changed
RECURSIVE NgramLoop(_, _)
NgramLoop(words, max_ngram) ==
    LET round == NgramPass(words, max_ngram, FALSE)
    IN  IF round.changed THEN NgramLoop(round.words, max_ngram) ELSE round.words

\* no phrase is collapsed
CollapseNoNgrams(tokens, max_ngram) == tokens

\* _collapse_repeated_ngrams(tokens, max_ngram)
CollapseRepeatedNgrams(tokens, max_ngram) ==
    IF Len(tokens) < 2 THEN tokens ELSE NgramLoop(tokens, max_ngram)

\* lines 97-98 of clean_line: the two passes in their order
Collapse(tokens) == CollapseRepeatedNgrams(CollapseRepeatedWords(tokens), MaxNgram)

FILLER_WORDS ==
    { <<"u", "h">>, <<"u", "m">>, <<"e", "r", "m">>, <<"h", "m", "m">>, <<"m", "m">> }

\* a line is dropped as soon as one of its tokens is a filler
DropFillerAnyLine(tokens) ==
    tokens = <<>> \/ \E i \in 1..Len(tokens) : Casefold(tokens[i]) \in FILLER_WORDS

\* no line with a token is dropped
DropEmptyLineOnly(tokens) == tokens = <<>>

\* _drop_filler_only_line(tokens)
DropFillerOnlyLine(tokens) ==
    tokens = <<>> \/ \A i \in 1..Len(tokens) : Casefold(tokens[i]) \in FILLER_WORDS

\* sep.join(items)
RECURSIVE Join(_, _)
Join(items, sep) ==
    IF items = <<>> THEN <<>>
    ELSE IF Len(items) = 1 THEN items[1]
    ELSE items[1] \o sep \o Join(Tail(items), sep)

\* clean_line(line)
CleanLine(line) ==
    LET tokens == FindWords(line)
        collapsed == Collapse(tokens)
    IN  IF tokens = <<>> THEN <<>>
        ELSE IF DropFillerOnlyLine(collapsed) THEN <<>>
        ELSE Strip(Join(collapsed, <<" ">>))

-----------------------------------------------------------------------------
(* The cleanup functions applied to bounded inputs *)

MaxTokens == 8      \* tokens of a sequence given to the collapser

\* the state before the cleanup call: no ledger, no call made, the argument chosen
InitCleanup(inputs) ==
    /\ file = NoFile
    /\ fs = [f \in SummaryFiles |-> Missing]
    /\ clock = 0
    /\ calls = 0
    /\ lastCall = <<>>
    /\ applied = <<>>
    /\ ret = NoRet
    /\ procs = [p \in Procs |-> Proc0]
    /\ input \in inputs

Idle == UNCHANGED <<file, fs, clock, calls, lastCall, applied, procs, input>>

\* the sequences of at most n elements of the set
SeqsUpTo(set, n) == UNION {[1..k -> set] : k \in 0..n}

\* tokens in two letter cases and of three spellings
CollapseWords == { <<"a">>, <<"A">>, <<"b">>, <<"c">> }

\* token lists of at most n tokens
CollapseInputs(n) == {[kind |-> "tokens", tokens |-> x] : x \in SeqsUpTo(CollapseWords, n)}

\* lines 97-98 on the tokens of a line
CollapseTokens ==
    /\ input.kind = "tokens"
    /\ ret.op = "none"
    /\ ret' = [op |-> "collapse", arg |-> input.tokens, out |-> Collapse(input.tokens)]
    /\ Idle

\* the same on the tokens it returned
CollapseAgain ==
    /\ ret.op = "collapse"
    /\ ret' = [op |-> "collapse again", arg |-> ret.out, out |-> Collapse(ret.out)]
    /\ Idle

NextCollapse == CollapseTokens \/ CollapseAgain

SpecCollapse == InitCleanup(CollapseInputs(MaxTokens)) /\ [][NextCollapse]_vars

\* C16: the collapser (the single-token pass, then the phrase pass of at most 4
\* tokens) applied to its own output returns that output unchanged.
C16_CollapseIdempotent == ret.op = "collapse again" => ret.out = ret.arg

C16_Witness ==
    /\ ret.op = "collapse again"
    /\ ret.out = ret.arg
    /\ CollapseRepeatedWords(input.tokens) # input.tokens
    /\ Len(ret.arg) + 4 <= Len(CollapseRepeatedWords(input.tokens))
    /\ \E i \in 1..Len(ret.arg) : ret.arg[i] = <<"A">>

-----------------------------------------------------------------------------
(* clean_line on a repeated phrase *)

MaxRepeats == 3     \* repetitions of the phrase

PhraseWords ==
    { <<"w", "e">>, <<"W", "e">>, <<"c", "a", "n">>, <<"d", "o">>, <<"u", "m">>, <<"u", "h">> }

\* phrases of 2 to 4 tokens
Phrases == UNION {[1..n -> PhraseWords] : n \in 2..MaxNgram}

\* every phrase said 2 to n times
PhraseInputs(n) ==
    {[kind |-> "phrase", phrase |-> p, times |-> k] : p \in Phrases, k \in 2..n}

\* k consecutive copies of the phrase
Copies(phrase, k) ==
    [i \in 1..(k * Len(phrase)) |-> phrase[((i - 1) % Len(phrase)) + 1]]

\* clean_line on the line of the repeated phrase
CleanRepeated ==
    /\ input.kind = "phrase"
    /\ ret.op = "none"
    /\ ret' = [op |-> "clean_line",
               out |-> CleanLine(Join(Copies(input.phrase, input.times), <<" ">>))]
    /\ Idle

\* clean_line on the phrase alone
CleanPhrase ==
    /\ input.kind = "phrase"
    /\ ret.op = "clean_line"
    /\ ret' = [op |-> "clean_line of the phrase", repeated |-> ret.out,
               out |-> CleanLine(Join(input.phrase, <<" ">>))]
    /\ Idle

NextPhrase == CleanRepeated \/ CleanPhrase

SpecPhrase == InitCleanup(PhraseInputs(MaxRepeats)) /\ [][NextPhrase]_vars

\* the phrase has no two adjacent tokens that are equal case-insensitively, is not
\* itself a phrase of two tokens said twice, and is not made of filler words only
PlainPhrase(p) ==
    /\ \A i \in 1..(Len(p) - 1) : Casefold(p[i]) # Casefold(p[i + 1])
    /\ ~(Len(p) = 4 /\ Casefold(p[1]) = Casefold(p[3]) /\ Casefold(p[2]) = Casefold(p[4]))
    /\ \E i \in 1..Len(p) :
           Casefold(p[i]) \notin FILLER_WORDS

\* C17 as stated: clean_line on k >= 2 consecutive repetitions of any phrase of 2 to 4
\* tokens returns a single copy of the phrase.
C17_OneCopyOfAnyPhrase ==
    ret.op = "clean_line" => ret.out = Join(input.phrase, <<" ">>)

\* C17: clean_line on k >= 2 consecutive repetitions of a phrase of 2 to 4 tokens
\* returns a single copy of the phrase, written as in its first copy, when the phrase
\* has no two adjacent tokens equal case-insensitively, is not a two-token phrase said
\* twice and is not made of filler words only; for every phrase it returns what
\* clean_line returns on the phrase alone.
C17_OneCopyOfPlainPhrase ==
    /\ (ret.op = "clean_line" /\ PlainPhrase(input.phrase))
           => ret.out = Join(input.phrase, <<" ">>)
    /\ ret.op = "clean_line of the phrase" => ret.repeated = ret.out

C17_Witness ==
    /\ ret.op = "clean_line"
    /\ input.times = MaxRepeats
    /\ Len(input.phrase) = MaxNgram
    /\ PlainPhrase(input.phrase)
    /\ Casefold(input.phrase[1]) = Casefold(input.phrase[4])
    /\ input.phrase[1] # input.phrase[4]
    /\ ret.out = Join(input.phrase, <<" ">>)

-----------------------------------------------------------------------------
(* clean_line on lines of filler words and short answers *)

MaxLineTokens == 3     \* words of a line

LineWords ==
    { <<"u", "h">>, <<"u", "m">>, <<"e", "r", "m">>, <<"h", "m", "m">>, <<"m", "m">>,
      <<"U", "M">>, <<"U", "h">>,
      <<"n", "o">>, <<"N", "o">>, <<"y", "e", "s">>, <<"o", "k">> }

LineSeparators == { <<" ">>, <<",", " ">> }

\* lines without any token
BlankLines == { <<>>, <<" ">>, <<".", ".", ".">>, <<" ", "-", " ">> }

\* lines of at most n words, and the lines without tokens
LineInputs(n) ==
    {[kind |-> "line", line |-> l] :
        l \in {Join(t, sep) : t \in SeqsUpTo(LineWords, n), sep \in LineSeparators}
                  \cup BlankLines}

\* clean_line(line)
CleanOneLine ==
    /\ input.kind = "line"
    /\ ret.op = "none"
    /\ ret' = [op |-> "clean_line", tokens |-> FindWords(input.line),
               out |-> CleanLine(input.line)]
    /\ Idle

\* clean_line on its own result
CleanLineAgain ==
    /\ input.kind = "line"
    /\ ret.op = "clean_line"
    /\ ret' = [op |-> "clean_line again", tokens |-> FindWords(ret.out),
               out |-> CleanLine(ret.out)]
    /\ Idle

NextLine == CleanOneLine \/ CleanLineAgain

SpecLine == InitCleanup(LineInputs(MaxLineTokens)) /\ [][NextLine]_vars

ClaimedFillers ==
    { <<"u", "h">>, <<"u", "m">>, <<"e", "r", "m">>, <<"h", "m", "m">>, <<"m", "m">> }

ShortAnswers == { <<"n", "o">>, <<"y", "e", "s">>, <<"o", "k">> }

\* the words of a token list, case-folded
FoldedWords(tokens) == {Casefold(tokens[i]) : i \in 1..Len(tokens)}

\* C18: clean_line returns the empty string for every line without tokens and for
\* every line whose tokens all are, case-insensitively, among uh, um, erm, hmm, mm; a
\* line made only of "no", "yes" or "ok" is never returned empty.
C18_FillerOnlyLines ==
    ret.op = "clean_line" =>
        /\ FoldedWords(ret.tokens) \subseteq ClaimedFillers => ret.out = <<>>
        /\ (ret.tokens # <<>> /\ FoldedWords(ret.tokens) \subseteq ShortAnswers)
               => ret.out # <<>>

C18_Witness ==
    /\ ret.op = "clean_line"
    /\ Len(ret.tokens) = MaxLineTokens
    /\ FoldedWords(ret.tokens) \subseteq ClaimedFillers
    /\ \E i \in 1..Len(ret.tokens) : ret.tokens[i] # Casefold(ret.tokens[i])
    /\ ret.out = <<>>

\* a line with a filler word and a word that is no filler
MixedLine(tokens) ==
    /\ FoldedWords(tokens) \cap ClaimedFillers # {}
    /\ FoldedWords(tokens) \ ClaimedFillers # {}

NoUm == <<"n", "o", " ", "u", "m">>

\* C19 as stated: a line that mixes filler and other tokens is not discarded and the
\* filler is removed from it: clean_line("no um") returns "no".
C19_FillerRemovedFromMixedLine ==
    (ret.op = "clean_line" /\ input.line = NoUm) => ret.out = <<"n", "o">>

\* C19: a line that mixes filler and other tokens is not discarded and keeps its
\* filler words: every word of the line still occurs, case-insensitively, in the
\* result, and clean_line("no um") returns "no um".
C19_MixedLineKeepsFillers ==
    (ret.op = "clean_line" /\ MixedLine(ret.tokens)) =>
        /\ ret.out # <<>>
        /\ FoldedWords(FindWords(ret.out)) = FoldedWords(ret.tokens)
        /\ input.line = NoUm => ret.out = NoUm

C19_Witness ==
    /\ ret.op = "clean_line"
    /\ input.line = NoUm
    /\ MixedLine(ret.tokens)
    /\ ret.out = NoUm

-----------------------------------------------------------------------------
(* clean_transcript_text *)

\* positions of raw_text where str.splitlines() ends a line
LineEnds(s) ==
    {i \in 1..Len(s) : s[i] = "\n" \/ (s[i] = "\r" /\ ~(i < Len(s) /\ s[i + 1] = "\n"))}

\* the text taken as a single line
WholeTextOneLine(s) == IF s = <<>> THEN <<>> ELSE <<s>>

\* raw_text.splitlines(): a last line without a line break counts, an empty rest does not
SplitLines(s) ==
    LET ends == LineEnds(s) \cup (IF s # <<>> /\ Len(s) \notin LineEnds(s)
                                  THEN {Len(s) + 1} ELSE {})
        EndOf(k) == CHOOSE e \in ends : Cardinality({x \in ends : x < e}) = k - 1
        StartOf(k) == IF k = 1 THEN 1 ELSE EndOf(k - 1) + 1
        StopOf(k) ==
            LET e == EndOf(k)
            IN  IF e <= Len(s) /\ s[e] = "\n" /\ e > 1 /\ s[e - 1] = "\r"
                THEN e - 2 ELSE e - 1
    IN  [k \in 1..Cardinality(ends) |-> SubSeq(s, StartOf(k), StopOf(k))]

\* the loop with the lines that clean_line returns empty emitted too
RECURSIVE CleanLoopKeepEmpty(_, _, _)
CleanLoopKeepEmpty(lines, cleaned_lines, prev_normalized) ==
    IF lines = <<>> THEN cleaned_lines
    ELSE
        LET cleaned == CleanLine(Head(lines))
            normalized == Casefold(cleaned)
        IN  IF normalized = prev_normalized /\ cleaned # <<>>
            THEN CleanLoopKeepEmpty(Tail(lines), cleaned_lines, prev_normalized)
            ELSE CleanLoopKeepEmpty(Tail(lines), Append(cleaned_lines, cleaned), normalized)

\* the loop with prev_normalized forgotten at every discarded line
RECURSIVE CleanLoopForgetful(_, _, _)
CleanLoopForgetful(lines, cleaned_lines, prev_normalized) ==
    IF lines = <<>> THEN cleaned_lines
    ELSE
        LET cleaned == CleanLine(Head(lines))
            normalized == Casefold(cleaned)
        IN  IF cleaned = <<>> THEN CleanLoopForgetful(Tail(lines), cleaned_lines, <<>>)
            ELSE IF normalized = prev_normalized
            THEN CleanLoopForgetful(Tail(lines), cleaned_lines, prev_normalized)
            ELSE CleanLoopForgetful(Tail(lines), Append(cleaned_lines, cleaned), normalized)

\* for line in input_lines: ...
RECURSIVE CleanLoop(_, _, _)
CleanLoop(lines, cleaned_lines, prev_normalized) ==
    IF lines = <<>> THEN cleaned_lines
    ELSE
        LET cleaned == CleanLine(Head(lines))
            normalized == Casefold(cleaned)
        IN  IF cleaned = <<>> THEN CleanLoop(Tail(lines), cleaned_lines, prev_normalized)
            ELSE IF normalized = prev_normalized
            THEN CleanLoop(Tail(lines), cleaned_lines, prev_normalized)
            ELSE CleanLoop(Tail(lines), Append(cleaned_lines, cleaned), normalized)

\* clean_transcript_text(raw_text): the cleaned text and the CleanupStats
CleanTranscriptText(raw_text) ==
    LET input_lines == SplitLines(raw_text)
        words_in == Len(FindWords(raw_text))
        cleaned_lines == CleanLoop(input_lines, <<>>, <<>>)
        cleaned_text == Strip(Join(cleaned_lines, <<"\n">>))
        words_out == Len(FindWords(cleaned_text))
    IN  [text |-> cleaned_text \o (IF cleaned_text # <<>> THEN <<"\n">> ELSE <<>>),
         stats |-> [lines_in |-> Len(input_lines), lines_out |-> Len(cleaned_lines),
                    words_in |-> words_in, words_out |-> words_out]]

MaxLines == 4     \* lines of a transcript

HelloThere == <<"h", "e", "l", "l", "o", " ", "t", "h", "e", "r", "e">>

NextLineText == <<"n", "e", "x", "t", " ", "l", "i", "n", "e">>

TranscriptLines ==
    { <<>>, <<"u", "m">>, HelloThere,
      <<"H", "e", "l", "l", "o", " ", "t", "h", "e", "r", "e">>,
      <<"h", "e", "l", "l", "o", " ">> \o HelloThere,
      NextLineText }

LineBreaks == { <<"\n">>, <<"\r", "\n">> }

\* every line followed by the line break
RECURSIVE Terminated(_, _)
Terminated(lines, break) ==
    IF lines = <<>> THEN <<>> ELSE Head(lines) \o break \o Terminated(Tail(lines), break)

\* transcripts of at most n lines: every line ends with a line break, which a last
\* line that is not empty may lack
TranscriptInputs(n) ==
    {[kind |-> "transcript", lines |-> l, raw |-> Terminated(l, b)] :
        l \in SeqsUpTo(TranscriptLines, n), b \in LineBreaks}
    \cup
    {[kind |-> "transcript", lines |-> l,
      raw |-> Terminated(SubSeq(l, 1, Len(l) - 1), b) \o l[Len(l)]] :
        l \in {x \in SeqsUpTo(TranscriptLines, n) : x # <<>> /\ x[Len(x)] # <<>>},
        b \in LineBreaks}

CleanTranscript ==
    /\ input.kind = "transcript"
    /\ ret.op = "none"
    /\ ret' = [op |-> "clean_transcript_text"] @@ CleanTranscriptText(input.raw)
    /\ Idle

\* the cleaned text cleaned once more
CleanTranscriptAgain ==
    /\ input.kind = "transcript"
    /\ ret.op = "clean_transcript_text"
    /\ ret' = [op |-> "clean_transcript_text again", first |-> ret.text]
                  @@ CleanTranscriptText(ret.text)
    /\ Idle

NextTranscript == CleanTranscript \/ CleanTranscriptAgain

SpecTranscript == InitCleanup(TranscriptInputs(MaxLines)) /\ [][NextTranscript]_vars

\* the lines of the input that clean_line does not return empty, cleaned
CleanedLines(lines) ==
    LET NotEmpty(l) == l # <<>>
    IN  SelectSeq([i \in 1..Len(lines) |-> CleanLine(lines[i])], NotEmpty)

\* the cleaned lines that differ, case-insensitively, from the cleaned line before them
Emitted(cleaned) ==
    LET kept == {j \in 1..Len(cleaned) :
                    j = 1 \/ Casefold(cleaned[j]) # Casefold(cleaned[j - 1])}
        Nth(k) == CHOOSE j \in kept : Cardinality({x \in kept : x < j}) = k - 1
    IN  [k \in 1..Cardinality(kept) |-> cleaned[Nth(k)]]

TestTranscript == <<HelloThere, HelloThere, HelloThere, NextLineText>>

\* C20: in the output of clean_transcript_text no two consecutive lines are equal
\* case-insensitively; a cleaned line is dropped exactly when it equals the previously
\* emitted line, also across discarded input lines; lines_in is the number of input
\* lines and lines_out the number of emitted lines; three copies of "hello there" and
\* "next line" give "hello there\nnext line\n" with lines_in = 4 and lines_out = 2.
C20_NoRepeatedOutputLines ==
    ret.op = "clean_transcript_text" =>
        LET out == SplitLines(ret.text)
        IN  /\ \A i \in 1..(Len(out) - 1) : Casefold(out[i]) # Casefold(out[i + 1])
            /\ out = Emitted(CleanedLines(input.lines))
            /\ ret.stats.lines_in = Len(input.lines)
            /\ ret.stats.lines_out = Len(out)
            /\ input.lines = TestTranscript =>
                   /\ ret.text = HelloThere \o <<"\n">> \o NextLineText \o <<"\n">>
                   /\ ret.stats.lines_in = 4
                   /\ ret.stats.lines_out = 2

C20_Witness ==
    /\ ret.op = "clean_transcript_text"
    /\ input.lines = <<HelloThere, <<"u", "m">>, <<"h", "e", "l", "l", "o", " ">> \o HelloThere,
                       NextLineText>>
    /\ ret.text = HelloThere \o <<"\n">> \o NextLineText \o <<"\n">>
    /\ ret.stats.lines_in = MaxLines
    /\ ret.stats.lines_out = 2

\* every line of the transcript is one that clean_line returns empty
AllFiltered(lines) == \A i \in 1..Len(lines) : CleanLine(lines[i]) = <<>>

\* C21: the text returned by clean_transcript_text is the empty string when every line
\* is filtered, and otherwise ends with exactly one line terminator and contains no
\* empty line.
C21_OneTrailingTerminator ==
    ret.op = "clean_transcript_text" =>
        IF AllFiltered(input.lines) THEN ret.text = <<>>
        ELSE /\ Len(ret.text) >= 2
             /\ ret.text[Len(ret.text)] = "\n"
             /\ ret.text[Len(ret.text) - 1] \notin {"\n", "\r"}
             /\ ret.text[1] \notin {"\n", "\r"}
             /\ \A i \in 1..(Len(ret.text) - 1) :
                    ~(ret.text[i] \in {"\n", "\r"} /\ ret.text[i + 1] \in {"\n", "\r"})

C21_Witness ==
    /\ ret.op = "clean_transcript_text"
    /\ input.lines = << <<>>, HelloThere, <<"u", "m">>, <<>> >>
    /\ input.raw[Len(input.raw)] = "\n"
    /\ ret.text = HelloThere \o <<"\n">>

-----------------------------------------------------------------------------
(* clean_transcript_text on empty and whitespace-only texts *)

MaxBlank == 4     \* characters of a whitespace-only text

\* the texts of at most n white-space characters
BlankInputs(n) ==
    {[kind |-> "transcript", raw |-> r] : r \in SeqsUpTo(WhitespaceChars, n)}

SpecBlank == InitCleanup(BlankInputs(MaxBlank)) /\ [][NextTranscript]_vars

\* the four stats with lines_in left out
NoOutput(result) ==
    /\ result.text = <<>>
    /\ result.stats.lines_out = 0
    /\ result.stats.words_in = 0
    /\ result.stats.words_out = 0

\* the number of lines of a whitespace-only text: one for every line break, "\r\n"
\* being one break, and one for a rest without a line break
BlankLineCount(raw) ==
    Cardinality({i \in 1..Len(raw) :
                    raw[i] = "\n" \/ (raw[i] = "\r" /\ (i = Len(raw) \/ raw[i + 1] # "\n"))})
        + (IF raw # <<>> /\ raw[Len(raw)] \notin {"\n", "\r"} THEN 1 ELSE 0)

\* C22 as stated: for every empty or whitespace-only input clean_transcript_text
\* returns empty cleaned text with lines_in, lines_out, words_in and words_out all zero.
C22_BlankInputAllStatsZero ==
    ret.op = "clean_transcript_text" => (NoOutput(ret) /\ ret.stats.lines_in = 0)

\* C22: for every empty or whitespace-only input clean_transcript_text returns empty
\* cleaned text with lines_out, words_in and words_out zero, while lines_in is the
\* number of (blank) lines of the input, which is zero for the empty string only.
C22_BlankInputNoOutput ==
    ret.op = "clean_transcript_text" =>
        /\ NoOutput(ret)
        /\ ret.stats.lines_in = BlankLineCount(input.raw)
        /\ ret.stats.lines_in = 0 <=> input.raw = <<>>

C22_Witness ==
    /\ ret.op = "clean_transcript_text"
    /\ input.raw = <<" ", "\r", "\n", "\n">>
    /\ NoOutput(ret)
    /\ ret.stats.lines_in = 2

-----------------------------------------------------------------------------
(* SessionSummary.from_payload (dnd_pipeline/models.py) *)

\* parsed JSON scalars
JsonStr(text) == [type |-> "str", text |-> text, number |-> 0]
JsonInt(n) == [type |-> "int", text |-> <<>>, number |-> n]

\* str(v) of a parsed JSON scalar; the numbers here have one digit
Str(v) == IF v.type = "int" THEN <<DigitChars[v.number + 1]>> ELSE v.text

\* _normalize_list(values)
RECURSIVE NormalizeLoop(_, _)
NormalizeLoop(values, output) ==
    IF values = <<>> THEN output
    ELSE
        LET clean == Strip(Head(values))
        IN  IF clean = <<>> THEN NormalizeLoop(Tail(values), output)
            ELSE IF \E i \in 1..Len(output) : Casefold(output[i]) = Casefold(clean)
            THEN NormalizeLoop(Tail(values), output)
            ELSE NormalizeLoop(Tail(values), Append(output, clean))

NormalizeList(values) == NormalizeLoop(values, <<>>)

\* SessionSummary.normalize()
Normalize(summary) ==
    [session_title |-> Strip(summary.session_title),
     session_date |-> Strip(summary.session_date),
     characters |-> NormalizeList(summary.characters),
     locations |-> NormalizeList(summary.locations),
     factions |-> NormalizeList(summary.factions),
     events |-> NormalizeList(summary.events),
     unresolved_hooks |-> NormalizeList(summary.unresolved_hooks),
     last_session_narrative |-> Strip(summary.last_session_narrative),
     plain_text_summary |-> Strip(summary.plain_text_summary),
     backlink_block |-> Strip(summary.backlink_block)]

\* required = [...]
Required ==
    <<"session_title", "session_date", "characters", "locations", "events",
      "unresolved_hooks">>

\* only the first missing key is reported
FirstMissingKey(payload) ==
    LET NotIn(key) == key \notin DOMAIN payload
        missing == SelectSeq(Required, NotIn)
    IN  IF missing = <<>> THEN <<>> ELSE <<missing[1]>>

\* missing = [key for key in required if key not in payload]
MissingKeys(payload) ==
    LET NotIn(key) == key \notin DOMAIN payload
    IN  SelectSeq(Required, NotIn)

\* ", ".join(missing), as the list of its pieces
RECURSIVE JoinKeys(_)
JoinKeys(keys) ==
    IF keys = <<>> THEN <<>>
    ELSE IF Len(keys) = 1 THEN keys
    ELSE <<keys[1], ", ">> \o JoinKeys(Tail(keys))

\* [str(v) for v in payload.get(key, [])]
StrList(payload, key) ==
    LET values == Get(payload, key, <<>>)
    IN  [i \in 1..Len(values) |-> Str(values[i])]

\* SessionSummary.from_payload(payload): ValueError with its message, or the
\* normalized summary
FromPayload(payload) ==
    LET missing == MissingKeys(payload)
    IN  IF missing # <<>>
        THEN [raised |-> TRUE,
              message |-> <<"Missing keys in summarizer JSON: ">> \o JoinKeys(missing),
              summary |-> <<>>]
        ELSE [raised |-> FALSE,
              message |-> <<>>,
              summary |-> <<Normalize(
                  [session_title |-> Str(payload["session_title"]),
                   session_date |-> Str(payload["session_date"]),
                   characters |-> StrList(payload, "characters"),
                   locations |-> StrList(payload, "locations"),
                   factions |-> StrList(payload, "factions"),
                   events |-> StrList(payload, "events"),
                   unresolved_hooks |-> StrList(payload, "unresolved_hooks"),
                   last_session_narrative |->
                       Str(Get(payload, "last_session_narrative", JsonStr(<<>>))),
                   plain_text_summary |->
                       Str(Get(payload, "plain_text_summary", JsonStr(<<>>))),
                   backlink_block |-> Str(Get(payload, "backlink_block", JsonStr(<<>>)))])>>]

-----------------------------------------------------------------------------
(* from_payload on payloads with any of the keys *)

PayloadKeys ==
    {"session_title", "session_date", "characters", "locations", "factions", "events",
     "unresolved_hooks", "last_session_narrative", "plain_text_summary", "backlink_block"}

\* the values a parsed payload gives its keys: text with white space around it, a
\* number for a title, lists with blanks and case-insensitive repeats
PayloadTitles == {JsonStr(<<" ", "S", "1", " ">>), JsonInt(7)}

PayloadValue(key, title) ==
    CASE key = "session_title" -> title
      [] key = "session_date" -> JsonStr(<<"d", " ">>)
      [] key = "characters" -> <<JsonStr(<<" ", "A", "n">>), JsonStr(<<"a", "n">>),
                                 JsonStr(<<" ">>), JsonStr(Bo)>>
      [] key = "locations" -> <<JsonStr(Keep)>>
      [] key = "factions" -> <<JsonStr(Guild), JsonInt(3)>>
      [] key = "events" -> <<>>
      [] key = "unresolved_hooks" -> <<JsonStr(Hook1), JsonStr(Hook1)>>
      [] OTHER -> JsonStr(<<" ", "t">>)

\* the payloads with the keys of every subset of the keys
Payloads(titles) ==
    {[kind |-> "payload", payload |-> [key \in keys |-> PayloadValue(key, t)]] :
        keys \in SUBSET PayloadKeys, t \in titles}

\* SessionSummary.from_payload(payload)
BuildFromPayload ==
    /\ input.kind = "payload"
    /\ ret.op = "none"
    /\ ret' = [op |-> "from_payload"] @@ FromPayload(input.payload)
    /\ Idle

\* summary.to_dict() handed back to from_payload
BuildFromOwnDict ==
    /\ input.kind = "payload"
    /\ ret.op = "from_payload"
    /\ ~ret.raised
    /\ ret' = [op |-> "from_payload of to_dict", first |-> ret.summary[1]]
                  @@ FromPayload([key \in PayloadKeys |->
                         IF key \in {"session_title", "session_date",
                                     "last_session_narrative", "plain_text_summary",
                                     "backlink_block"}
                         THEN JsonStr(ToDict(ret.summary[1])[key])
                         ELSE [i \in 1..Len(ToDict(ret.summary[1])[key]) |->
                                  JsonStr(ToDict(ret.summary[1])[key][i])]])
    /\ Idle

NextPayload == BuildFromPayload \/ BuildFromOwnDict

SpecPayload == InitCleanup(Payloads(PayloadTitles)) /\ [][NextPayload]_vars

ClaimedRequired ==
    {"session_title", "session_date", "characters", "locations", "events",
     "unresolved_hooks"}

\* the key names that the error message lists, in its order
ListedKeys(message) ==
    LET IsKey(piece) == piece \in PayloadKeys
    IN  SelectSeq(message, IsKey)

\* C23: from_payload fails with an error that lists exactly the missing key names
\* whenever the payload lacks any of session_title, session_date, characters,
\* locations, events, unresolved_hooks, and builds no summary then; a payload with all
\* six keys is accepted, also without factions and the optional text fields.
C23_MissingKeysListed ==
    ret.op = "from_payload" =>
        LET lacking == ClaimedRequired \ DOMAIN input.payload
            listed == ListedKeys(ret.message)
        IN  IF lacking # {}
            THEN /\ ret.raised
                 /\ ret.summary = <<>>
                 /\ {listed[i] : i \in 1..Len(listed)} = lacking
                 /\ Len(listed) = Cardinality(lacking)
            ELSE /\ ~ret.raised
                 /\ Len(ret.summary) = 1

C23_Witness ==
    /\ ret.op = "from_payload"
    /\ DOMAIN input.payload = PayloadKeys \ {"session_date", "events"}
    /\ ret.raised
    /\ ret.summary = <<>>
    /\ ListedKeys(ret.message) = <<"session_date", "events">>

\* a payload with the six keys only is accepted
C23_AcceptedWitness ==
    /\ ret.op = "from_payload"
    /\ DOMAIN input.payload = ClaimedRequired
    /\ ~ret.raised
    /\ ret.summary[1].factions = <<>>
    /\ ret.summary[1].characters = << <<"A", "n">>, Bo >>

-----------------------------------------------------------------------------
(* The previous session's context over a ledger with many open hooks *)

\* summaries with more open hooks than the fallback takes, with a few, and with none
HookSummaries ==
    { Summary(<<"S", "1">>, <<"d">>,
              << <<>>, <<>>, <<>>, <<>>, NumberedList("h", HookCount) >>, <<>>),
      Summary(<<"S", "2">>, <<"d">>, << <<>>, <<>>, <<>>, <<>>, <<Hook2, Hook1>> >>, <<>>),
      Summary(<<"S", "3">>, <<"d">>, << <<>>, <<>>, <<>>, <<>>, <<>> >>, <<"n">>) }

NextHooks ==
    \/ \E s \in HookSummaries, t \in SummaryTranscripts :
           UpdateIndex(s, NotePath(s), ToPath(t), clock)
    \/ \E s \in HookSummaries, t \in SummaryTranscripts :
           WriteSummaryJson(s, WithSuffix(ToPath(t), SummarySuffix))
    \/ \E t \in MemCurrent : PreviousSessionContext(ToPath(t))

SpecHooks == Init /\ [][NextHooks]_vars

\* the hooks that the summary file of the record supplies
SuppliedHooks(record) ==
    LET f == SummaryFileOf(record)
    IN  IF f.kind = "json" THEN f.summary[1].unresolved_hooks ELSE <<>>

\* C24: when the chosen record's summary supplies no hooks, the context's
\* unresolved_hooks are the first min(8, n) entries of the ledger's hook list in ledger
\* order; when it supplies at least one hook, the context holds exactly the summary's
\* hooks and none of the ledger's.
C24_HookFallback ==
    (Retrieved /\ ret.found) =>
        LET supplied == SuppliedHooks(Ledger.sessions[ret.src])
            global == Ledger.unresolved_hooks
            n == Len(global)
        IN  IF supplied = <<>>
            THEN ret.context[1].unresolved_hooks =
                     [i \in 1..(IF n < 8 THEN n ELSE 8) |-> global[i]]
            ELSE ret.context[1].unresolved_hooks = supplied

C24_Witness ==
    /\ Retrieved /\ ret.found
    /\ SummaryFileOf(Ledger.sessions[ret.src]).kind = "json"
    /\ SuppliedHooks(Ledger.sessions[ret.src]) = <<>>
    /\ Len(Ledger.unresolved_hooks) > 8
    /\ Len(ret.context[1].unresolved_hooks) = 8
    /\ ret.context[1].unresolved_hooks[1] = Ledger.unresolved_hooks[1]

\* the summary's own hooks are returned while the ledger holds others
C24_OwnHooksWitness ==
    /\ Retrieved /\ ret.found
    /\ ret.context[1].unresolved_hooks = <<Hook2, Hook1>>
    /\ Len(Ledger.unresolved_hooks) > 8

-----------------------------------------------------------------------------
(* The single-token pass on its own *)

MaxWords == 5     \* tokens given to the single-token pass

Yeah == <<"Y", "e", "a", "h">>

WordTokens ==
    { Yeah, <<"y", "e", "a", "h">>, <<"Y", "E", "A", "H">>, <<"n", "o">> }

\* token lists of at most n tokens
WordInputs(n) == {[kind |-> "words", tokens |-> x] : x \in SeqsUpTo(WordTokens, n)}

\* _collapse_repeated_words(tokens)
CollapseWordsOf ==
    /\ input.kind = "words"
    /\ ret.op = "none"
    /\ ret' = [op |-> "_collapse_repeated_words",
               out |-> CollapseRepeatedWords(input.tokens)]
    /\ Idle

\* the pass on the tokens it returned
CollapseWordsAgain ==
    /\ input.kind = "words"
    /\ ret.op = "_collapse_repeated_words"
    /\ ret' = [op |-> "_collapse_repeated_words again", first |-> ret.out,
               out |-> CollapseRepeatedWords(ret.out)]
    /\ Idle

NextWords == CollapseWordsOf \/ CollapseWordsAgain

SpecWords == InitCleanup(WordInputs(MaxWords)) /\ [][NextWords]_vars

\* C25: the single-token pass drops every token that equals, case-insensitively, the
\* output token before it and keeps the first occurrence as written: the output is
\* the list of the tokens that differ case-insensitively from the token before them,
\* it has no two adjacent tokens equal case-insensitively, and "Yeah yeah YEAH"
\* becomes "Yeah".
C25_SingleTokenPass ==
    ret.op = "_collapse_repeated_words" =>
        /\ ret.out = Emitted(input.tokens)
        /\ \A i \in 1..(Len(ret.out) - 1) : Casefold(ret.out[i]) # Casefold(ret.out[i + 1])
        /\ input.tokens = <<Yeah, <<"y", "e", "a", "h">>, <<"Y", "E", "A", "H">> >>
               => ret.out = <<Yeah>>

C25_Witness ==
    /\ ret.op = "_collapse_repeated_words"
    /\ input.tokens = <<Yeah, <<"y", "e", "a", "h">>, <<"Y", "E", "A", "H">> >>
    /\ ret.out = <<Yeah>>

-----------------------------------------------------------------------------
(* clean_line and the phrase pass on lines of arbitrary tokens *)

\* tokens of two spellings, one of them in two letter cases
FixedWords == { <<"a">>, <<"A">>, <<"b">> }

\* token lists of at most n tokens
FixedInputs(n) == {[kind |-> "tokens", tokens |-> x] : x \in SeqsUpTo(FixedWords, n)}

\* clean_line on the line of the tokens
CleanTokenLine ==
    /\ input.kind = "tokens"
    /\ ret.op = "none"
    /\ ret' = [op |-> "clean_line",
               out |-> FindWords(CleanLine(Join(input.tokens, <<" ">>)))]
    /\ Idle

\* _collapse_repeated_ngrams(tokens, max_ngram=4) on the tokens as they are
PhrasePassOf ==
    /\ input.kind = "tokens"
    /\ ret.op = "none"
    /\ ret' = [op |-> "_collapse_repeated_ngrams",
               out |-> CollapseRepeatedNgrams(input.tokens, MaxNgram)]
    /\ Idle

NextFixed == CleanTokenLine \/ PhrasePassOf

SpecFixed == InitCleanup(FixedInputs(MaxTokens)) /\ [][NextFixed]_vars

\* the n tokens at position i equal, case-insensitively, the n tokens after them
RepeatsAt(tokens, i, n) ==
    /\ i + 2 * n - 1 <= Len(tokens)
    /\ \A k \in 0..(n - 1) : Casefold(tokens[i + k]) = Casefold(tokens[i + n + k])

\* C26: in the token sequence that clean_line returns no N tokens, N in 1..4, are
\* followed by the same N tokens case-insensitively; the phrase pass leaves no such
\* repetition of 2 to 4 tokens and returns sequences of fewer than 2 tokens unchanged.
C26_NoRepetitionLeft ==
    /\ ret.op = "clean_line" =>
           \A n \in 1..4 : \A i \in 1..Len(ret.out) : ~RepeatsAt(ret.out, i, n)
    /\ ret.op = "_collapse_repeated_ngrams" =>
           /\ \A n \in 2..4 : \A i \in 1..Len(ret.out) : ~RepeatsAt(ret.out, i, n)
           /\ Len(input.tokens) < 2 => ret.out = input.tokens

\* a line that one round of the phrase lengths does not bring to the fixed point
C26_Witness ==
    /\ ret.op = "clean_line"
    /\ Len(input.tokens) = MaxTokens
    /\ \E i \in 1..Len(input.tokens) : RepeatsAt(input.tokens, i, 4)
    /\ Len(ret.out) = 2
    /\ \A n \in 1..4 : \A i \in 1..Len(ret.out) : ~RepeatsAt(ret.out, i, n)

-----------------------------------------------------------------------------
(* The loops of _collapse_repeated_ngrams, scan by scan *)

\* tokens of two spellings
RoundWords == { <<"a">>, <<"b">> }

\* token lists of at most n tokens
RoundInputs(n) == {[kind |-> "tokens", tokens |-> x] : x \in SeqsUpTo(RoundWords, n)}

\* lines 50-54: the early return, or the entry into `while changed`
EnterPhrasePass ==
    /\ input.kind = "tokens"
    /\ ret.op = "none"
    /\ ret' = IF Len(input.tokens) < 2
              THEN [op |-> "phrase pass", pc |-> "returned", words |-> input.tokens,
                    n |-> 0, changed |-> FALSE, rounds |-> 0,
                    was |-> Len(input.tokens), local_change |-> FALSE]
              ELSE [op |-> "phrase pass", pc |-> "for", words |-> input.tokens,
                    n |-> MaxNgram, changed |-> FALSE, rounds |-> 1,
                    was |-> Len(input.tokens), local_change |-> FALSE]
    /\ Idle

\* lines 57-79: one iteration of `for n in range(max_ngram, 1, -1)`
ScanForPhrases ==
    /\ ret.op = "phrase pass"
    /\ ret.pc = "for"
    /\ ret.n >= 2
    /\ LET scan == IF Len(ret.words) < 2 * ret.n
                   THEN [out |-> ret.words, local_change |-> FALSE]
                   ELSE NgramScan(ret.words, ret.n, 0, <<>>, FALSE)
       IN  ret' = [ret EXCEPT !.words = IF scan.local_change THEN scan.out ELSE @,
                              !.changed = @ \/ scan.local_change,
                              !.n = @ - 1,
                              !.was = Len(ret.words),
                              !.local_change = scan.local_change]
    /\ Idle

\* line 55: `while changed` after the last phrase length, at most as many rounds as
\* a sequence of this length can be shortened, and one
NextRound ==
    /\ ret.op = "phrase pass"
    /\ ret.pc = "for"
    /\ ret.n < 2
    /\ IF ret.changed
       THEN /\ ret.rounds <= Len(input.tokens)
            /\ ret' = [ret EXCEPT !.n = MaxNgram, !.changed = FALSE, !.rounds = @ + 1,
                                  !.local_change = FALSE, !.was = Len(ret.words)]
       ELSE ret' = [ret EXCEPT !.pc = "returned", !.local_change = FALSE]
    /\ Idle

NextRounds == EnterPhrasePass \/ ScanForPhrases \/ NextRound

SpecRounds == InitCleanup(RoundInputs(MaxTokens)) /\ [][NextRounds]_vars

\* the interpreter keeps running the loop
SpecRoundsLive == SpecRounds /\ WF_vars(NextRounds)

\* the loop has returned what _collapse_repeated_ngrams returns
PhrasePassReturned ==
    /\ ret.op = "phrase pass"
    /\ ret.pc = "returned"
    /\ ret.words = CollapseRepeatedNgrams(input.tokens, MaxNgram)

\* every scan that reported a change shortened the words, and the rounds of
\* `while changed` are no more than the tokens given
ShortenedAndBounded ==
    ret.op = "phrase pass" =>
        /\ ret.local_change => Len(ret.words) < ret.was
        /\ Len(ret.words) <= ret.was
        /\ Len(input.tokens) >= 2 => ret.rounds <= Len(input.tokens)

\* C27: the fixed-point loop of _collapse_repeated_ngrams terminates for every token
\* sequence: every scan that reports a change strictly shortens the sequence, the
\* number of rounds of the outer loop is at most the input length, and the loop
\* returns.
C27_PhrasePassTerminates == []ShortenedAndBounded /\ <>PhrasePassReturned

\* a third round was needed
C27_Witness ==
    /\ ret.op = "phrase pass"
    /\ ret.pc = "returned"
    /\ ret.rounds = 3
    /\ Len(ret.words) < Len(input.tokens)

-----------------------------------------------------------------------------
(* The tokenizer on lines of letters, digits, connectors and other characters *)

MaxChars == 5     \* characters of a line given to the tokenizer

LineChars == {"a", "7", "'", "&", "-", ".", " "}

\* the lines of at most n characters
CharLines(n) == {[kind |-> "chars", line |-> l] : l \in SeqsUpTo(LineChars, n)}

\* WORD_RE.findall(line)
Tokenize ==
    /\ input.kind = "chars"
    /\ ret.op = "none"
    /\ ret' = [op |-> "findall", out |-> FindWords(input.line)]
    /\ Idle

\* the tokens joined by single spaces, tokenized
TokenizeJoined ==
    /\ input.kind = "chars"
    /\ ret.op = "findall"
    /\ ret' = [op |-> "findall again", first |-> ret.out,
               out |-> FindWords(Join(ret.out, <<" ">>))]
    /\ Idle

NextTokens == Tokenize \/ TokenizeJoined

SpecTokens == InitCleanup(CharLines(MaxChars)) /\ [][NextTokens]_vars

Alnum(c) ==
    c \in {"a", "b", "c", "d", "e", "f", "g", "h", "i", "j", "k", "l", "m",
           "n", "o", "p", "q", "r", "s", "t", "u", "v", "w", "x", "y", "z",
           "A", "B", "C", "D", "E", "F", "G", "H", "I", "J", "K", "L", "M",
           "N", "O", "P", "Q", "R", "S", "T", "U", "V", "W", "X", "Y", "Z",
           "0", "1", "2", "3", "4", "5", "6", "7", "8", "9"}

Connector(c) == c \in {"'", "&", "-"}

\* the character at position i is alphanumeric, or a connector between two
\* alphanumerics
InWord(s, i) ==
    \/ Alnum(s[i])
    \/ /\ Connector(s[i])
       /\ i > 1 /\ Alnum(s[i - 1])
       /\ i < Len(s) /\ Alnum(s[i + 1])

\* the maximal runs of such characters, from left to right
MaximalRuns(s) ==
    LET starts == {i \in 1..Len(s) : InWord(s, i) /\ (i = 1 \/ ~InWord(s, i - 1))}
        ends == {i \in 1..Len(s) : InWord(s, i) /\ (i = Len(s) \/ ~InWord(s, i + 1))}
        nth(k) == CHOOSE i \in starts : Cardinality({j \in starts : j < i}) = k - 1
        end(i) == CHOOSE j \in ends : j >= i /\ \A m \in ends : m >= i => j <= m
    IN  [k \in 1..Cardinality(starts) |-> SubSeq(s, nth(k), end(nth(k)))]

WellFormedToken(t) ==
    /\ t # <<>>
    /\ Alnum(t[1]) /\ Alnum(t[Len(t)])
    /\ \A i \in 1..Len(t) : Alnum(t[i]) \/ Connector(t[i])
    /\ \A i \in 1..(Len(t) - 1) : ~(Connector(t[i]) /\ Connector(t[i + 1]))

\* C28: tokenizing a line yields, in order, the maximal runs of alphanumerics joined
\* by single connectors (' & -) that stand between two alphanumerics: no token starts
\* or ends with a connector or has two adjacent connectors, every other character
\* separates, and a line without alphanumerics yields no tokens.
C28_TokensAreMaximalRuns ==
    ret.op = "findall" =>
        /\ ret.out = MaximalRuns(input.line)
        /\ \A k \in 1..Len(ret.out) : WellFormedToken(ret.out[k])
        /\ (\A i \in 1..Len(input.line) : ~Alnum(input.line[i])) => ret.out = <<>>

C28_Witness ==
    /\ ret.op = "findall"
    /\ input.line = <<"a", "-", "7", "-", "-">>
    /\ ret.out = << <<"a", "-", "7">> >>

-----------------------------------------------------------------------------
(* clean_line on token lines and clean_transcript_text on transcripts *)

NextDeletes == CleanTokenLine \/ CleanTranscript

SpecDeletes ==
    /\ InitCleanup(FixedInputs(MaxTokens) \cup TranscriptInputs(MaxLines))
    /\ [][NextDeletes]_vars

\* a is b with some of its elements deleted
RECURSIVE IsSubsequence(_, _)
IsSubsequence(a, b) ==
    IF a = <<>> THEN TRUE
    ELSE IF b = <<>> THEN FALSE
    ELSE IF Head(a) = Head(b) THEN IsSubsequence(Tail(a), Tail(b))
    ELSE IsSubsequence(a, Tail(b))

\* C29: cleaning only deletes tokens: the tokens of clean_line's output are a
\* subsequence of the line's tokens, in their order and as they were written, and the
\* first of them is the line's first token; for every transcript words_out <= words_in
\* and lines_out <= lines_in.
C29_OnlyDeletes ==
    /\ ret.op = "clean_line" =>
           /\ IsSubsequence(ret.out, input.tokens)
           /\ ret.out # <<>> => ret.out[1] = input.tokens[1]
    /\ ret.op = "clean_transcript_text" =>
           /\ ret.stats.words_out <= ret.stats.words_in
           /\ ret.stats.lines_out <= ret.stats.lines_in

C29_Witness ==
    /\ ret.op = "clean_line"
    /\ Len(input.tokens) = MaxTokens
    /\ input.tokens[1] = <<"A">>
    /\ input.tokens[2] = <<"a">>
    /\ Len(ret.out) = 3
    /\ ret.out[1] = <<"A">>

\* a transcript that loses lines and words
C29_TranscriptWitness ==
    /\ ret.op = "clean_transcript_text"
    /\ ret.stats.words_out > 0
    /\ ret.stats.words_out < ret.stats.words_in
    /\ ret.stats.lines_out < ret.stats.lines_in

-----------------------------------------------------------------------------
(* clean_transcript_text on its own output *)

\* C30: clean_transcript_text is idempotent: cleaning the cleaned text returns the
\* same text, and in that second run lines_in = lines_out and words_in = words_out.
C30_CleanTranscriptIdempotent ==
    ret.op = "clean_transcript_text again" =>
        /\ ret.text = ret.first
        /\ ret.stats.lines_in = ret.stats.lines_out
        /\ ret.stats.words_in = ret.stats.words_out

C30_Witness ==
    /\ ret.op = "clean_transcript_text again"
    /\ input.lines = <<HelloThere, <<"u", "m">>,
                       <<"H", "e", "l", "l", "o", " ", "t", "h", "e", "r", "e">>, NextLineText>>
    /\ ret.first = HelloThere \o <<"\n">> \o NextLineText \o <<"\n">>
    /\ ret.text = ret.first
    /\ ret.stats.lines_in = 2
    /\ ret.stats.words_in = 4

====
